---- MODULE Spec2Model ----
(***************************************************************************)
(* Synchronization core of facilmap: the LinePoint table and its bbox/zoom *)
(* queries, the line mutations of DatabaseLines, the marker mutations of   *)
(* database.js with their fan-out, and the client's reconciliation.        *)
(***************************************************************************)
EXTENDS Integers, Sequences, FiniteSets, TLC

VARIABLES
    Line,        \* rows of the Line table: [id, padId, routePoints, mode]
    LinePoint,   \* rows of the LinePoint table: [lineId, idx, lat, lon, zoom]
    nextId,      \* the Line table's next auto-increment id
    calls,       \* the DatabaseLines calls in flight, each at one of its awaits
    emitted,     \* the events passed to this._db.emit, in order
    q,           \* the last query issued against the tables, with its result
    Marker,      \* rows of the Marker table: [id, lat, lon, colour]
    markerSeq,   \* the Marker table's next auto-increment id
    sockets,     \* per connection, the server's side: its bbox and its updateBbox handler
    channel,     \* per connection, the messages sent to the client and not yet handled
    client,      \* per connection, the Client object: its markers and its bbox
    counts,      \* how many mutation requests and updateBbox requests were made
    LineData,    \* rows of the LineData table: [lineId, name, value]
    Type,        \* rows of the Type table: [id, padId, fields]
    History,     \* the history entries appended, oldest first
    Pad,         \* rows of the Pad table: [id, writeId]
    View         \* rows of the View table: [id, padId, name]

vars == <<Line, LinePoint, nextId, calls, emitted, q,
          Marker, markerSeq, sockets, channel, client, counts, LineData, Type,
          History, Pad, View>>

\* The tables of the older backend, which the other specifications leave alone.
dataVars == <<LineData, Type, History, Pad, View>>

\* No data row, no type, no history entry, no pad, no view.
DataIdle == LineData = {} /\ Type = {} /\ History = <<>> /\ Pad = {} /\ View = {}

\* The marker side, which the line and query specifications leave alone.
syncVars == <<Marker, markerSeq, sockets, channel, client, counts>>

\* No marker, no connection.
SyncIdle ==
    /\ Marker = {} /\ markerSeq = 1
    /\ sockets = <<>> /\ channel = <<>> /\ client = <<>> /\ counts = <<>>

\* What the query specifications leave alone.
callVars == <<nextId, calls, emitted>>

(***************************************************************************)
(* Value domains of the query specifications                               *)
(***************************************************************************)
\* Rows the line holds in the bbox query specification.
MaxStored == 1
\* Rows the LinePoint table holds for the pad in the point query specification.
MaxRows == 3

Lats == {1, 2}
Lons == {-179, -170, 0, 170, 179}
LonBounds == {-170, 0, 170}
ZoomTags == {1, 10}
QueryZooms == {5, 15}

\* A bbox as the server receives it: top >= bottom; right < left wraps.
Bboxes ==
    { b \in [top : Lats, bottom : Lats, left : LonBounds, right : LonBounds] :
        b.top >= b.bottom }

WithZoom(b, z, exc) ==
    [top |-> b.top, bottom |-> b.bottom, left |-> b.left, right |-> b.right,
     zoom |-> z, except |-> exc]

(***************************************************************************)
(* Pure functions of the backend                                           *)
(***************************************************************************)
Range(s) == { s[i] : i \in DOMAIN s }

\* Mutant of makeBboxCondition: a wrapping except bbox is excluded with the
\* non-wrapping test (or instead of and).
makeBboxCondition_exceptOr(bboxOpt, p) ==
    IF bboxOpt = <<>> THEN TRUE
    ELSE LET bbox == bboxOpt[1] IN
        /\ p.lat <= bbox.top /\ p.lat >= bbox.bottom
        /\ IF bbox.right < bbox.left
             THEN p.lon >= bbox.left \/ p.lon <= bbox.right
             ELSE p.lon >= bbox.left /\ p.lon <= bbox.right
        /\ IF bbox.except # <<>>
             THEN LET e == bbox.except[1] IN
                    \/ (p.lat > e.top \/ p.lat < e.bottom)
                    \/ (p.lon < e.left \/ p.lon > e.right)
             ELSE TRUE

\* Mutant of makeBboxCondition: no branch for a bbox that spans lon=180.
makeBboxCondition_noWrap(bboxOpt, p) ==
    IF bboxOpt = <<>> THEN TRUE
    ELSE LET bbox == bboxOpt[1] IN
        /\ p.lat <= bbox.top /\ p.lat >= bbox.bottom
        /\ p.lon >= bbox.left /\ p.lon <= bbox.right
        /\ IF bbox.except # <<>>
             THEN LET e == bbox.except[1] IN
                    \/ (p.lat > e.top \/ p.lat < e.bottom)
                    \/ IF e.right < e.left
                         THEN p.lon < e.left /\ p.lon > e.right
                         ELSE p.lon < e.left \/ p.lon > e.right
             ELSE TRUE

\* Mutant of makeBboxCondition: right <= left is taken as spanning lon=180.
makeBboxCondition_wrapOnEqual(bboxOpt, p) ==
    IF bboxOpt = <<>> THEN TRUE
    ELSE LET bbox == bboxOpt[1] IN
        /\ p.lat <= bbox.top /\ p.lat >= bbox.bottom
        /\ IF bbox.right <= bbox.left
             THEN p.lon >= bbox.left \/ p.lon <= bbox.right
             ELSE p.lon >= bbox.left /\ p.lon <= bbox.right
        /\ IF bbox.except # <<>>
             THEN LET e == bbox.except[1] IN
                    \/ (p.lat > e.top \/ p.lat < e.bottom)
                    \/ IF e.right < e.left
                         THEN p.lon < e.left /\ p.lon > e.right
                         ELSE p.lon < e.left \/ p.lon > e.right
             ELSE TRUE

\* Mutant of makeBboxCondition: the except test uses non-strict comparisons,
\* so a point on the except bbox's boundary passes it.
makeBboxCondition_exceptInclusive(bboxOpt, p) ==
    IF bboxOpt = <<>> THEN TRUE
    ELSE LET bbox == bboxOpt[1] IN
        /\ p.lat <= bbox.top /\ p.lat >= bbox.bottom
        /\ IF bbox.right < bbox.left
             THEN p.lon >= bbox.left \/ p.lon <= bbox.right
             ELSE p.lon >= bbox.left /\ p.lon <= bbox.right
        /\ IF bbox.except # <<>>
             THEN LET e == bbox.except[1] IN
                    \/ (p.lat >= e.top \/ p.lat <= e.bottom)
                    \/ IF e.right < e.left
                         THEN p.lon <= e.left /\ p.lon >= e.right
                         ELSE p.lon <= e.left \/ p.lon >= e.right
             ELSE TRUE

\* _makeBboxCondition(bbox): the WHERE condition, applied to a row p.
\* bboxOpt is <<>> for a missing bbox and <<bbox>> otherwise; bbox.except likewise.
makeBboxCondition(bboxOpt, p) ==
    IF bboxOpt = <<>> THEN TRUE
    ELSE LET bbox == bboxOpt[1] IN
        /\ p.lat <= bbox.top /\ p.lat >= bbox.bottom
        /\ IF bbox.right < bbox.left
             THEN p.lon >= bbox.left \/ p.lon <= bbox.right
             ELSE p.lon >= bbox.left /\ p.lon <= bbox.right
        /\ IF bbox.except # <<>>
             THEN LET e == bbox.except[1] IN
                    \/ (p.lat > e.top \/ p.lat < e.bottom)
                    \/ IF e.right < e.left
                         THEN p.lon < e.left /\ p.lon > e.right
                         ELSE p.lon < e.left \/ p.lon > e.right
             ELSE TRUE

\* Mutant of zoomCondition: the zoom clause is left out of the query.
zoomCondition_none(bboxOpt, p) == TRUE

\* The zoom part of the WHERE clause: { zoom: { lte: bboxWithZoom.zoom } } or null.
zoomCondition(bboxOpt, p) ==
    IF bboxOpt = <<>> THEN TRUE ELSE p.zoom <= bboxOpt[1].zoom

\* ORDER BY idx over a set of rows.
RECURSIVE OrderByIdx(_)
OrderByIdx(rows) ==
    IF rows = {} THEN <<>>
    ELSE LET first == CHOOSE r \in rows : \A o \in rows : r.idx <= o.idx
         IN <<first>> \o OrderByIdx(rows \ {first})

\* getLinePointsByBbox(lineId, bboxWithZoom): attributes [ "idx" ], order "idx".
getLinePointsByBbox(table, lineId, bboxOpt) ==
    LET rows == { r \in table : /\ r.lineId = lineId
                                /\ makeBboxCondition(bboxOpt, r)
                                /\ zoomCondition(bboxOpt, r) }
        sorted == OrderByIdx(rows)
    IN [ i \in DOMAIN sorted |-> [idx |-> sorted[i].idx] ]

\* omit(point.toJSON(), ["lineId", "pos"]): a row as a TrackPoint.
TrackPoint(r) == [idx |-> r.idx, lat |-> r.lat, lon |-> r.lon, zoom |-> r.zoom]

\* getAllLinePoints(lineId): every row of the line, order [["idx", "ASC"]].
getAllLinePoints(table, lineId) ==
    LET sorted == OrderByIdx({ r \in table : r.lineId = lineId })
    IN [ i \in DOMAIN sorted |-> TrackPoint(sorted[i]) ]

\* The rows LinePointModel.findAll selects in getLinePointsForPad: zoom lte,
\* lineId in the pad's line ids, and the bbox condition.
padLinePoints(lines, table, padId, bbox) ==
    LET lineIds == { l.id : l \in { x \in lines : x.padId = padId } }
    IN { r \in table : /\ r.zoom <= bbox.zoom
                       /\ r.lineId \in lineIds
                       /\ makeBboxCondition(<<bbox>>, r) }

\* The orders in which a findAll without an order clause may return rows.
RowOrders(rows) ==
    { f \in [1..Cardinality(rows) -> rows] : \A i, j \in DOMAIN f : f[i] = f[j] => i = j }

\* Ascending enumeration of a set of integers (the key order of Object.entries).
RECURSIVE Ascending(_)
Ascending(S) ==
    IF S = {} THEN <<>>
    ELSE LET m == CHOOSE x \in S : \A y \in S : x <= y IN <<m>> \o Ascending(S \ {m})

\* Object.entries(groupBy(linePoints, "lineId")).map(...): one entry per line
\* id, its rows in the order the query returned them.
groupByLineId(linePoints) ==
    LET ids == Ascending({ linePoints[i].lineId : i \in DOMAIN linePoints })
    IN [ k \in DOMAIN ids |->
           LET val == SelectSeq(linePoints, LAMBDA r : r.lineId = ids[k])
           IN [id |-> ids[k], trackPoints |-> [ i \in DOMAIN val |-> TrackPoint(val[i]) ]] ]

(***************************************************************************)
(* Bbox query specification: a stored line, then one query against it      *)
(***************************************************************************)
NoQuery == [kind |-> "none"]

\* Some enumeration of a finite set.
RECURSIVE SetToSeq(_)
SetToSeq(S) ==
    IF S = {} THEN <<>>
    ELSE LET x == CHOOSE y \in S : TRUE IN <<x>> \o SetToSeq(S \ {x})

\* The tables a single line can hold: up to MaxStored points at distinct
\* places, idx 0..n-1.
StoredTables ==
    { LET f == SetToSeq(S)
      IN { [lineId |-> 1, idx |-> i - 1, lat |-> f[i].lat, lon |-> f[i].lon, zoom |-> f[i].zoom]
             : i \in DOMAIN f }
      : S \in { T \in SUBSET [lat : Lats, lon : Lons, zoom : ZoomTags] : Cardinality(T) <= MaxStored } }

InitBbox ==
    /\ Line = { [id |-> 1, padId |-> 1] }
    /\ LinePoint \in StoredTables
    /\ q = NoQuery
    /\ nextId = 2 /\ calls = <<>> /\ emitted = <<>>
    /\ SyncIdle
    /\ DataIdle

\* One query of the line's points in a bbox at a zoom.
QueryPoints ==
    /\ q = NoQuery
    /\ \E b \in Bboxes, z \in QueryZooms :
         q' = [kind |-> "points", bbox |-> b, zoom |-> z,
               res |-> getLinePointsByBbox(LinePoint, 1, <<WithZoom(b, z, <<>>)>>)]
    /\ UNCHANGED <<Line, LinePoint, callVars, syncVars>>
    /\ UNCHANGED dataVars

\* A differential fill: the viewport moves from old to new at zoom z; the
\* new bbox is queried with except = old, beside the two full queries.
QueryDiff ==
    /\ q = NoQuery
    /\ \E old \in Bboxes, new \in Bboxes, z \in QueryZooms :
         q' = [kind |-> "diff", old |-> old, new |-> new, zoom |-> z,
               resOld  |-> getLinePointsByBbox(LinePoint, 1, <<WithZoom(old, z, <<>>)>>),
               resNew  |-> getLinePointsByBbox(LinePoint, 1, <<WithZoom(new, z, <<>>)>>),
               resDiff |-> getLinePointsByBbox(LinePoint, 1, <<WithZoom(new, z, <<old>>)>>)]
    /\ UNCHANGED <<Line, LinePoint, callVars, syncVars>>
    /\ UNCHANGED dataVars

NextBbox == QueryPoints \/ QueryDiff

SpecBbox == InitBbox /\ [][NextBbox]_vars

(***************************************************************************)
(* Regions, stated as sets of coordinates                                  *)
(***************************************************************************)
\* The longitudes of a bbox: [left,right], or [left,180] with [-180,right]
\* when it wraps.
LonRegion(b) ==
    IF b.right < b.left THEN (b.left .. 180) \cup (-180 .. b.right) ELSE b.left .. b.right

LatRegion(b) == b.bottom .. b.top

InRegion(b, p) == p.lat \in LatRegion(b) /\ p.lon \in LonRegion(b)

RegionContained(b1, b2) ==
    LatRegion(b1) \subseteq LatRegion(b2) /\ LonRegion(b1) \subseteq LonRegion(b2)

Wraps(b) == b.right < b.left

\* The idx values of the rows of line l that lie in region b with zoom tag <= z.
IdxIn(l, b, z) == { r.idx : r \in { x \in LinePoint : x.lineId = l /\ InRegion(b, x) /\ x.zoom <= z } }

Idxs(res) == { res[i].idx : i \in DOMAIN res }

(***************************************************************************)
(* C6: differential fill                                                   *)
(***************************************************************************)
\* C6 as stated: the query of the new bbox with except = old bbox returns a
\* STRICT subset of the full new-bbox result, and that subset joined with what
\* the old bbox matched (restricted to the new bbox) is the full result.
C6_StrictSubsetOriginal ==
    q.kind = "diff" =>
        /\ Idxs(q.resDiff) \subseteq Idxs(q.resNew)
        /\ Idxs(q.resDiff) # Idxs(q.resNew)
        /\ Idxs(q.resDiff) \cup (Idxs(q.resOld) \cap Idxs(q.resNew)) = Idxs(q.resNew)

\* C6 amended: the except query returns a subset of the full new-bbox result,
\* strict exactly when some point of the full result lies in the old bbox; it
\* holds none of the old bbox's points, and joined with what the old bbox
\* matched (restricted to the new bbox) it is the full result, for wrapping
\* and non-wrapping old and new bboxes alike.
C6_DiffFill ==
    q.kind = "diff" =>
        /\ Idxs(q.resDiff) \subseteq Idxs(q.resNew)
        /\ (Idxs(q.resDiff) # Idxs(q.resNew)) <=> (Idxs(q.resOld) \cap Idxs(q.resNew) # {})
        /\ Idxs(q.resDiff) \cap Idxs(q.resOld) = {}
        /\ Idxs(q.resDiff) \cup (Idxs(q.resOld) \cap Idxs(q.resNew)) = Idxs(q.resNew)

\* C6 witness: a wrapping old bbox and a non-wrapping new one share a stored
\* point, which the except query leaves out of a non-empty full result.
C6_Witness ==
    /\ q.kind = "diff"
    /\ Wraps(q.old) /\ ~Wraps(q.new)
    /\ Idxs(q.resOld) \cap Idxs(q.resNew) # {}
    /\ Idxs(q.resDiff) # Idxs(q.resNew)

(***************************************************************************)
(* C7: what a bbox matches                                                 *)
(***************************************************************************)
\* C7: a bbox with right < left matches the longitudes [left,180] and
\* [-180,right]: left=170, right=-170 matches lon 179 and lon -179 and not
\* lon 0; a bbox with left <= right matches exactly left <= lon <= right and
\* bottom <= lat <= top, bounds included.
C7_BboxMatch ==
    q.kind = "points" =>
        /\ Idxs(q.res) = IdxIn(1, q.bbox, q.zoom)
        /\ \A r \in LinePoint :
             (/\ q.bbox.left = 170 /\ q.bbox.right = -170
              /\ r.lat >= q.bbox.bottom /\ r.lat <= q.bbox.top /\ r.zoom <= q.zoom)
             => /\ r.lon \in {179, -179} => r.idx \in Idxs(q.res)
                /\ r.lon = 0 => r.idx \notin Idxs(q.res)
        /\ \A r \in LinePoint :
             (~Wraps(q.bbox) /\ r.zoom <= q.zoom)
             => (r.idx \in Idxs(q.res)
                   <=> /\ q.bbox.left <= r.lon /\ r.lon <= q.bbox.right
                       /\ q.bbox.bottom <= r.lat /\ r.lat <= q.bbox.top)

\* C7 witness: the bbox 170..-170 was queried and returned a point at lon 179.
C7_Witness ==
    /\ q.kind = "points"
    /\ q.bbox.left = 170 /\ q.bbox.right = -170
    /\ \E r \in LinePoint : r.lon = 179 /\ r.idx \in Idxs(q.res)

(***************************************************************************)
(* C8: monotonicity in the bbox                                            *)
(***************************************************************************)
\* C8: when the region of bbox B1 lies in the region of bbox B2 (wrapping or
\* not), every point the query returns for B1 at zoom Z it returns for B2 at Z.
C8_Monotone ==
    (q.kind = "diff" /\ RegionContained(q.old, q.new))
        => Idxs(q.resOld) \subseteq Idxs(q.resNew)

\* C8 witness: a non-wrapping bbox inside a different, wrapping one, with a
\* point returned for the inner bbox.
C8_Witness ==
    /\ q.kind = "diff"
    /\ RegionContained(q.old, q.new) /\ q.old # q.new
    /\ ~Wraps(q.old) /\ Wraps(q.new)
    /\ q.resOld # <<>>

(***************************************************************************)
(* C30: the except test against the inclusion test                         *)
(***************************************************************************)
\* A point of E's region that lies on one of E's four bounds.
OnBoundary(e, p) ==
    /\ InRegion(e, p)
    /\ (p.lat \in {e.top, e.bottom} \/ p.lon \in {e.left, e.right})

\* C30: for every stored point the new bbox matches and every except bbox E
\* (wrapping or not), the point passes the except test for E exactly when it
\* fails the inclusion test for E: it is in the except query's result iff the
\* query of E alone does not return it iff it lies outside E's region; a
\* point on E's boundary is inside E and is left out.
C30_ExceptComplement ==
    q.kind = "diff" =>
        \A r \in LinePoint :
            r.idx \in Idxs(q.resNew) =>
                /\ r.idx \in Idxs(q.resDiff) <=> r.idx \notin Idxs(q.resOld)
                /\ r.idx \in Idxs(q.resDiff) <=> ~InRegion(q.old, r)
                /\ OnBoundary(q.old, r) => r.idx \notin Idxs(q.resDiff)

\* C30 witness: a wrapping except bbox with a stored point on its left bound
\* that the new bbox matches and the except query leaves out.
C30_Witness ==
    /\ q.kind = "diff"
    /\ Wraps(q.old)
    /\ \E r \in LinePoint :
         /\ r.lon = q.old.left /\ OnBoundary(q.old, r)
         /\ r.idx \in Idxs(q.resNew)
         /\ r.idx \notin Idxs(q.resDiff)

(***************************************************************************)
(* Point query specification: two lines of a pad, then one query           *)
(***************************************************************************)
PointBboxes ==
    { [top |-> 2, bottom |-> 1, left |-> -170, right |-> 170],
      [top |-> 2, bottom |-> 1, left |-> 170, right |-> -170] }

\* Lines 1 and 2 belong to pad 1, line 3 to pad 2.
PadLines == { [id |-> 1, padId |-> 1], [id |-> 2, padId |-> 1], [id |-> 3, padId |-> 2] }

OtherPadRow == [lineId |-> 3, idx |-> 0, lat |-> 1, lon |-> 0, zoom |-> 1]

\* The tables pad 1 can hold: up to MaxRows rows inserted for lines 1 and 2,
\* each line's idx counting its rows from 0; line 3 of pad 2 holds one row.
PadTables ==
    UNION { { { [lineId |-> f[i].lineId,
                 idx |-> Cardinality({ j \in 1..(i - 1) : f[j].lineId = f[i].lineId }),
                 lat |-> 1, lon |-> f[i].lon, zoom |-> f[i].zoom] : i \in 1..n } \cup { OtherPadRow }
              : f \in [1..n -> [lineId : {1, 2}, lon : {0, 179}, zoom : ZoomTags]] }
            : n \in 0..MaxRows }

InitPoints ==
    /\ Line = PadLines
    /\ LinePoint \in PadTables
    /\ q = NoQuery
    /\ nextId = 4 /\ calls = <<>> /\ emitted = <<>>
    /\ SyncIdle
    /\ DataIdle

\* getLinePointsByBbox of one line at a lower and at a higher zoom.
QueryLine ==
    /\ q = NoQuery
    /\ \E l \in {1, 2}, b \in PointBboxes, zlo \in QueryZooms, zhi \in QueryZooms :
         /\ zlo <= zhi
         /\ q' = [kind |-> "line", line |-> l, bbox |-> b, zlo |-> zlo, zhi |-> zhi,
                  resLo |-> getLinePointsByBbox(LinePoint, l, <<WithZoom(b, zlo, <<>>)>>),
                  resHi |-> getLinePointsByBbox(LinePoint, l, <<WithZoom(b, zhi, <<>>)>>)]
    /\ UNCHANGED <<Line, LinePoint, callVars, syncVars>>
    /\ UNCHANGED dataVars

\* getLinePointsForPad of pad 1: the rows come back in some order, then are grouped.
QueryPad ==
    /\ q = NoQuery
    /\ \E b \in PointBboxes, z \in QueryZooms :
         \E linePoints \in RowOrders(padLinePoints(Line, LinePoint, 1, WithZoom(b, z, <<>>))) :
            q' = [kind |-> "pad", bbox |-> b, zoom |-> z, res |-> groupByLineId(linePoints)]
    /\ UNCHANGED <<Line, LinePoint, callVars, syncVars>>
    /\ UNCHANGED dataVars

\* getAllLinePoints of one line.
QueryAll ==
    /\ q = NoQuery
    /\ \E l \in {1, 2} : q' = [kind |-> "all", line |-> l, res |-> getAllLinePoints(LinePoint, l)]
    /\ UNCHANGED <<Line, LinePoint, callVars, syncVars>>
    /\ UNCHANGED dataVars

NextPoints == QueryLine \/ QueryPad \/ QueryAll

SpecPoints == InitPoints /\ [][NextPoints]_vars

\* The track points of the group of line l in a pad query result (none: <<>>).
GroupOf(res, l) ==
    IF \E k \in DOMAIN res : res[k].id = l
      THEN res[CHOOSE k \in DOMAIN res : res[k].id = l].trackPoints
      ELSE <<>>

IdxAscending(s) == \A i, j \in DOMAIN s : i < j => s[i].idx < s[j].idx

(***************************************************************************)
(* C9: zoom filter                                                         *)
(***************************************************************************)
\* C9: a point query at zoom Z returns exactly the stored points of the line
\* inside the bbox whose zoom tag is <= Z, so the result at a lower zoom is a
\* subset of the result at a higher zoom; with idx0 (zoom 1), idx1 (zoom 1),
\* idx2 (zoom 10) in the bbox, zoom 5 returns idx0, idx1 and zoom 15 all three.
C9_ZoomFilter ==
    /\ q.kind = "line" =>
          /\ Idxs(q.resLo) = IdxIn(q.line, q.bbox, q.zlo)
          /\ Idxs(q.resHi) = IdxIn(q.line, q.bbox, q.zhi)
          /\ Idxs(q.resLo) \subseteq Idxs(q.resHi)
          /\ ( /\ { [idx |-> r.idx, zoom |-> r.zoom] : r \in { x \in LinePoint : x.lineId = q.line } }
                    = { [idx |-> 0, zoom |-> 1], [idx |-> 1, zoom |-> 1], [idx |-> 2, zoom |-> 10] }
               /\ \A r \in LinePoint : r.lineId = q.line => InRegion(q.bbox, r)
               /\ q.zlo = 5 /\ q.zhi = 15 )
             => /\ q.resLo = <<[idx |-> 0], [idx |-> 1]>>
                /\ q.resHi = <<[idx |-> 0], [idx |-> 1], [idx |-> 2]>>
    /\ q.kind = "pad" =>
          /\ \A l \in {1, 2} : Idxs(GroupOf(q.res, l)) = IdxIn(l, q.bbox, q.zoom)
          /\ \A k \in DOMAIN q.res : q.res[k].id \in {1, 2}

\* C9 witness: the line idx0 z1, idx1 z1, idx2 z10 was queried at zoom 5 and at
\* zoom 15 and returned two and three points.
C9_Witness ==
    /\ q.kind = "line" /\ q.zlo = 5 /\ q.zhi = 15
    /\ { [idx |-> r.idx, zoom |-> r.zoom] : r \in { x \in LinePoint : x.lineId = q.line } }
         = { [idx |-> 0, zoom |-> 1], [idx |-> 1, zoom |-> 1], [idx |-> 2, zoom |-> 10] }
    /\ Len(q.resLo) = 2 /\ Len(q.resHi) = 3

(***************************************************************************)
(* C10: order and grouping                                                 *)
(***************************************************************************)
\* C10: point queries return points ordered by ascending idx; a pad query has
\* one group per line id, each group holding only that line's points, in
\* ascending idx order within the group.
C10_OrderedByIdx ==
    /\ q.kind = "line" => IdxAscending(q.resLo) /\ IdxAscending(q.resHi)
    /\ q.kind = "all" => IdxAscending(q.res)
    /\ q.kind = "pad" =>
          /\ \A j, k \in DOMAIN q.res : q.res[j].id = q.res[k].id => j = k
          /\ \A k \in DOMAIN q.res :
               /\ \A i \in DOMAIN q.res[k].trackPoints :
                    q.res[k].trackPoints[i]
                      \in { TrackPoint(r) : r \in { x \in LinePoint : x.lineId = q.res[k].id } }
               /\ IdxAscending(q.res[k].trackPoints)

(***************************************************************************)
(* Line mutations: DatabaseLines.createLine, updateLine, deleteLine         *)
(*                                                                         *)
(* Each call runs from one await to the next.  An action is one database   *)
(* operation together with the code that runs when its promise settles, up *)
(* to the next database operation the call issues.  Every database         *)
(* operation may reject.                                                   *)
(***************************************************************************)
\* Calls that can be in flight together.
NumCalls == 2
\* Track points of a computed route.
NumPts == 2
\* Rows _bulkCreateInBatches inserts per statement.
BatchSize == 1

Calls == 1..NumCalls
RoutePoints == {"rpA", "rpB"}

\* calculateRouteForLine: the track of a line, a function of its route points
\* and mode (the routing engine is external); in mode "track" the track
\* points that came with the request.
calculateRouteForLine(routePoints, mode) ==
    [ i \in 1..NumPts |->
        [idx |-> i - 1,
         lat |-> IF routePoints = "rpA" THEN 1 ELSE 2,
         lon |-> IF mode = "car" THEN 10 ELSE IF mode = "track" THEN 20 ELSE 0,
         zoom |-> 1] ]

\* { ...trackPoints[i], lineId: lineId }
PointRow(lineId, p) == [lineId |-> lineId, idx |-> p.idx, lat |-> p.lat, lon |-> p.lon, zoom |-> p.zoom]

TrackRows(lineId, track) == { PointRow(lineId, track[i]) : i \in DOMAIN track }

\* The LineUpdate bodies of the requests: an absent field is "none".
UpdateData ==
    [routePoints : RoutePoints \cup {"none"}, mode : {"none", "car"}, trackPoints : {"none"}]
      \cup { [routePoints |-> "none", mode |-> "track", trackPoints |-> "given"],
              [routePoints |-> "none", mode |-> "none", trackPoints |-> "given"] }

NoCall ==
    [op |-> "none", pc |-> "idle", pad |-> 1, line |-> 0,
     data |-> [routePoints |-> "none", mode |-> "none", trackPoints |-> "none"],
     update |-> [routePoints |-> "none", mode |-> "none"],
     routeInfo |-> FALSE, track |-> <<>>, inserted |-> 0, noEvent |-> FALSE,
     persisted |-> FALSE, result |-> "pending"]

\* The pad holds line 1, routed in mode "" along rpA, with its track stored.
Line0 == { [id |-> 1, padId |-> 1, routePoints |-> "rpA", mode |-> ""] }
LinePoint0 == TrackRows(1, calculateRouteForLine("rpA", ""))

Init ==
    /\ Line = Line0
    /\ LinePoint = LinePoint0
    /\ nextId = 2
    /\ calls = [c \in Calls |-> NoCall]
    /\ emitted = <<>>
    /\ q = NoQuery
    /\ SyncIdle
    /\ DataIdle

\* The call rejects: nothing further runs.
Reject(c) == calls' = [calls EXCEPT ![c].pc = "done", ![c].result = "error"]

\* Mutant of Emit: the "line" event is left out.
Emit_withoutLine(c, type, id) ==
    IF type = "line" THEN emitted
    ELSE Append(emitted, [type |-> type, padId |-> 1, id |-> id, call |-> c])

\* this._db.emit(type, padId, ...)
Emit(c, type, id) == Append(emitted, [type |-> type, padId |-> 1, id |-> id, call |-> c])

\* createLine up to _createPadObject: getType and calculateRouteForLine.
CreateLine_begin(c, routePoints) ==
    /\ calls[c].op = "none"
    /\ \/ calls' = [calls EXCEPT ![c] =
                      [NoCall EXCEPT !.op = "createLine", !.pc = "create",
                                     !.update = [routePoints |-> routePoints, mode |-> ""],
                                     !.routeInfo = TRUE,
                                     !.track = calculateRouteForLine(routePoints, "")]]
       \/ calls' = [calls EXCEPT ![c] =
                      [NoCall EXCEPT !.op = "createLine", !.pc = "done", !.result = "error"]]
    /\ UNCHANGED <<Line, LinePoint, nextId, emitted, q, syncVars>>
    /\ UNCHANGED dataVars

\* _createPadObject, then emit "line" and the start of _setLinePoints.
CreateLine_create(c) ==
    /\ calls[c].pc = "create"
    /\ \/ /\ Line' = Line \cup { [id |-> nextId, padId |-> 1,
                                  routePoints |-> calls[c].update.routePoints,
                                  mode |-> calls[c].update.mode] }
          /\ nextId' = nextId + 1
          /\ emitted' = Emit(c, "line", nextId)
          /\ calls' = [calls EXCEPT ![c].pc = "destroy", ![c].line = nextId, ![c].persisted = TRUE]
       \/ /\ Reject(c)
          /\ UNCHANGED <<Line, nextId, emitted>>
    /\ UNCHANGED <<LinePoint, q, syncVars>>
    /\ UNCHANGED dataVars

\* Mutant of needsRoute: supplied track points alone do not recompute the route.
needsRoute_withoutTrack(update, trackPoints, originalLine) ==
    \/ update.routePoints # originalLine.routePoints
    \/ update.mode # originalLine.mode

\* The condition under which updateLine recomputes the route.
needsRoute(update, trackPoints, originalLine) ==
    \/ (update.mode = "track" /\ trackPoints # "none")
    \/ update.routePoints # originalLine.routePoints
    \/ update.mode # originalLine.mode

\* updateLine up to _updatePadObject: getLine, the update, calculateRouteForLine.
UpdateLine_begin(c, padId, lineId, data) ==
    /\ calls[c].op = "none"
    /\ IF \E l \in Line : l.id = lineId /\ l.padId = padId
         THEN LET originalLine == CHOOSE l \in Line : l.id = lineId /\ l.padId = padId
                  update == [routePoints |-> IF data.routePoints # "none" THEN data.routePoints
                                             ELSE originalLine.routePoints,
                             mode |-> IF data.mode # "none" THEN data.mode ELSE originalLine.mode]
                  route == needsRoute(update, data.trackPoints, originalLine)
              IN \/ calls' = [calls EXCEPT ![c] =
                                [NoCall EXCEPT !.op = "updateLine", !.pc = "update", !.line = lineId,
                                               !.pad = padId, !.data = data,
                                               !.update = update, !.routeInfo = route,
                                               !.track = IF route
                                                           THEN calculateRouteForLine(update.routePoints, update.mode)
                                                           ELSE <<>>]]
                 \/ /\ route
                    /\ calls' = [calls EXCEPT ![c] =
                                   [NoCall EXCEPT !.op = "updateLine", !.line = lineId,
                                                  !.pad = padId, !.data = data,
                                                  !.pc = "done", !.result = "error"]]
         ELSE calls' = [calls EXCEPT ![c] =
                          [NoCall EXCEPT !.op = "updateLine", !.line = lineId,
                                         !.pad = padId, !.data = data,
                                         !.pc = "done", !.result = "error"]]
    /\ UNCHANGED <<Line, LinePoint, nextId, emitted, q, syncVars>>
    /\ UNCHANGED dataVars

\* Mutant of UpdateLine_update: only the fields the request supplied are
\* written, the others are left as stored.
UpdateLine_update_supplied(c) ==
    /\ calls[c].pc = "update"
    /\ \/ /\ \E l \in Line : l.id = calls[c].line /\ l.padId = calls[c].pad
          /\ Line' = { IF l.id = calls[c].line
                         THEN [l EXCEPT !.routePoints = IF calls[c].data.routePoints # "none"
                                                          THEN calls[c].data.routePoints ELSE @,
                                        !.mode = IF calls[c].data.mode # "none"
                                                   THEN calls[c].data.mode ELSE @]
                         ELSE l : l \in Line }
          /\ emitted' = Emit(c, "line", calls[c].line)
          /\ calls' = IF calls[c].routeInfo
                        THEN [calls EXCEPT ![c].pc = "destroy", ![c].persisted = TRUE]
                        ELSE [calls EXCEPT ![c].pc = "done", ![c].persisted = TRUE, ![c].result = "ok"]
       \/ /\ Reject(c)
          /\ UNCHANGED <<Line, emitted>>
    /\ UNCHANGED <<LinePoint, nextId, q, syncVars>>
    /\ UNCHANGED dataVars

\* _updatePadObject, then emit "line" and, with a new route, the start of _setLinePoints.
UpdateLine_update(c) ==
    /\ calls[c].pc = "update"
    /\ \/ /\ \E l \in Line : l.id = calls[c].line /\ l.padId = calls[c].pad
          /\ Line' = { IF l.id = calls[c].line
                         THEN [l EXCEPT !.routePoints = calls[c].update.routePoints,
                                        !.mode = calls[c].update.mode]
                         ELSE l : l \in Line }
          /\ emitted' = Emit(c, "line", calls[c].line)
          /\ calls' = IF calls[c].routeInfo
                        THEN [calls EXCEPT ![c].pc = "destroy", ![c].persisted = TRUE]
                        ELSE [calls EXCEPT ![c].pc = "done", ![c].persisted = TRUE, ![c].result = "ok"]
       \/ /\ Reject(c)
          /\ UNCHANGED <<Line, emitted>>
    /\ UNCHANGED <<LinePoint, nextId, q, syncVars>>
    /\ UNCHANGED dataVars

\* deleteLine: the call of _setLinePoints(padId, lineId, [ ], true).
DeleteLine_begin(c, padId, lineId) ==
    /\ calls[c].op = "none"
    /\ calls' = [calls EXCEPT ![c] =
                   [NoCall EXCEPT !.op = "deleteLine", !.pc = "destroy", !.line = lineId,
                                  !.pad = padId,
                                  !.noEvent = TRUE]]
    /\ UNCHANGED <<Line, LinePoint, nextId, emitted, q, syncVars>>
    /\ UNCHANGED dataVars

\* What follows _setLinePoints once its last batch is stored: its own emit,
\* then the caller: createLine and updateLine return, deleteLine goes on to
\* _deletePadObject.
AfterSetLinePoints(c) ==
    /\ emitted' = IF calls[c].noEvent THEN emitted ELSE Emit(c, "linePoints", calls[c].line)
    /\ calls' = IF calls[c].op = "deleteLine"
                  THEN [calls EXCEPT ![c].pc = "deleteRow"]
                  ELSE [calls EXCEPT ![c].pc = "done", ![c].result = "ok"]

\* _setLinePoints: LinePointModel.destroy({ where: { lineId } }).
SetLinePoints_destroy(c) ==
    /\ calls[c].pc = "destroy"
    /\ \/ /\ LinePoint' = { r \in LinePoint : r.lineId # calls[c].line }
          /\ IF calls[c].track = <<>>
               THEN AfterSetLinePoints(c)
               ELSE /\ calls' = [calls EXCEPT ![c].pc = "insert", ![c].inserted = 0]
                    /\ UNCHANGED emitted
       \/ /\ Reject(c)
          /\ UNCHANGED <<LinePoint, emitted>>
    /\ UNCHANGED <<Line, nextId, q, syncVars>>
    /\ UNCHANGED dataVars

\* Mutant of SetLinePoints_insert: the rows are inserted whether or not their
\* line exists.
SetLinePoints_insert_noForeignKey(c) ==
    /\ calls[c].pc = "insert"
    /\ LET upto == IF calls[c].inserted + BatchSize < Len(calls[c].track)
                     THEN calls[c].inserted + BatchSize ELSE Len(calls[c].track)
           batch == { PointRow(calls[c].line, calls[c].track[i]) : i \in (calls[c].inserted + 1)..upto }
       IN \/ /\ LinePoint' = LinePoint \cup batch
             /\ IF upto = Len(calls[c].track)
                  THEN AfterSetLinePoints(c)
                  ELSE /\ calls' = [calls EXCEPT ![c].inserted = upto]
                       /\ UNCHANGED emitted
          \/ /\ Reject(c)
             /\ UNCHANGED <<LinePoint, emitted>>
    /\ UNCHANGED <<Line, nextId, q, syncVars>>
    /\ UNCHANGED dataVars

\* _setLinePoints: one statement of _bulkCreateInBatches.  The rows reference
\* their line (makeNotNullForeignKey), so the insert rejects without it.
SetLinePoints_insert(c) ==
    /\ calls[c].pc = "insert"
    /\ LET upto == IF calls[c].inserted + BatchSize < Len(calls[c].track)
                     THEN calls[c].inserted + BatchSize ELSE Len(calls[c].track)
           batch == { PointRow(calls[c].line, calls[c].track[i]) : i \in (calls[c].inserted + 1)..upto }
       IN \/ /\ \E l \in Line : l.id = calls[c].line
             /\ LinePoint' = LinePoint \cup batch
             /\ IF upto = Len(calls[c].track)
                  THEN AfterSetLinePoints(c)
                  ELSE /\ calls' = [calls EXCEPT ![c].inserted = upto]
                       /\ UNCHANGED emitted
          \/ /\ Reject(c)
             /\ UNCHANGED <<LinePoint, emitted>>
    /\ UNCHANGED <<Line, nextId, q, syncVars>>
    /\ UNCHANGED dataVars

\* deleteLine: _deletePadObject (the line's rows go with it), then emit "deleteLine".
DeleteLine_deleteRow(c) ==
    /\ calls[c].pc = "deleteRow"
    /\ \/ /\ \E l \in Line : l.id = calls[c].line /\ l.padId = calls[c].pad
          /\ Line' = { l \in Line : l.id # calls[c].line }
          /\ LinePoint' = { r \in LinePoint : r.lineId # calls[c].line }
          /\ emitted' = Emit(c, "deleteLine", calls[c].line)
          /\ calls' = [calls EXCEPT ![c].pc = "done", ![c].persisted = TRUE, ![c].result = "ok"]
       \/ /\ Reject(c)
          /\ UNCHANGED <<Line, LinePoint, emitted>>
    /\ UNCHANGED <<nextId, q, syncVars>>
    /\ UNCHANGED dataVars

\* Line ids a request may name: stored ones and one that is not.
LineIds == 1..(NumCalls + 2)

\* The pads a request may name: the pad of the lines and another one.
PadIds == {1, 2}

Next ==
    \/ \E c \in Calls, routePoints \in RoutePoints : CreateLine_begin(c, routePoints)
    \/ \E c \in Calls : CreateLine_create(c)
    \/ \E c \in Calls, padId \in PadIds, lineId \in LineIds, data \in UpdateData :
          UpdateLine_begin(c, padId, lineId, data)
    \/ \E c \in Calls : UpdateLine_update(c)
    \/ \E c \in Calls, padId \in PadIds, lineId \in LineIds : DeleteLine_begin(c, padId, lineId)
    \/ \E c \in Calls : SetLinePoints_destroy(c)
    \/ \E c \in Calls : SetLinePoints_insert(c)
    \/ \E c \in Calls : DeleteLine_deleteRow(c)

Spec == Init /\ [][Next]_vars

(***************************************************************************)
(* C1: a failed mutation leaves nothing behind                             *)
(***************************************************************************)
\* C1: a failed mutation never partially broadcasts or partially persists:
\* a call that rejected has emitted no event, and (no other call having
\* run) the Line and LinePoint tables are as before it; so no 'line' event
\* comes from a createLine/updateLine that then fails storing track points,
\* and a failed deleteLine leaves the line's track points intact.
C1_AllOrNothing ==
    \A c \in Calls : calls[c].result = "error" =>
        /\ \A i \in DOMAIN emitted : emitted[i].call # c
        /\ (\A d \in Calls \ {c} : calls[d].op = "none")
              => (Line = Line0 /\ LinePoint = LinePoint0)

(***************************************************************************)
(* C2: setLinePoints is atomic for readers                                 *)
(***************************************************************************)
\* The complete sequences line l may show: the one it had before any call
\* and the one each call on it stores.
CompleteSequences(l) ==
    (IF l = 1 THEN { LinePoint0 } ELSE { {} })
      \cup { TrackRows(l, calls[c].track) : c \in { d \in Calls : calls[d].op # "none" /\ calls[d].line = l } }

\* C2: in every reachable state the stored points of a line are exactly the
\* complete old sequence or the complete new sequence of one call, never a
\* mixture, a partial sequence or the points of two calls together.
C2_AtomicReplace ==
    \A l \in Line : { r \in LinePoint : r.lineId = l.id } \in CompleteSequences(l.id)

(***************************************************************************)
(* C3: one broadcast per successful mutation, none per failed one          *)
(***************************************************************************)
EventsOf(c, types) == { i \in DOMAIN emitted : emitted[i].call = c /\ emitted[i].type \in types }

\* C3: a mutation that succeeded has broadcast its event ('line',
\* 'deleteLine') exactly once, after it was persisted; a mutation whose call
\* returned an error has broadcast nothing.
C3_OneBroadcast ==
    \A c \in Calls :
        /\ calls[c].result = "ok" => Cardinality(EventsOf(c, {"line", "deleteLine"})) = 1
        /\ calls[c].result = "error" => EventsOf(c, {"line", "deleteLine", "linePoints"}) = {}
        /\ EventsOf(c, {"line", "deleteLine"}) # {} => calls[c].persisted

(***************************************************************************)
(* C17: concurrent edits of one line are last-write-wins                   *)
(***************************************************************************)
\* The positions in the event log of the 'line' events of line id.
LineEvents(id) == { i \in DOMAIN emitted : emitted[i].type = "line" /\ emitted[i].id = id }

\* The call whose write of line id was persisted last.
LastWriter(id) ==
    emitted[CHOOSE i \in LineEvents(id) : \A j \in LineEvents(id) : j <= i].call

\* C17: a stored line that was written holds the routePoints and mode of
\* the call that wrote it last, as that call composed them when it read the
\* line: what its request supplied and, for the rest, what it read then,
\* whatever another call wrote in between; no call fails for that.
C17_LastWriteWins ==
    \A l \in Line : LineEvents(l.id) # {} =>
        LET w == calls[LastWriter(l.id)]
        IN /\ l.routePoints = w.update.routePoints
           /\ l.mode = w.update.mode
           /\ w.op = "updateLine" =>
                 /\ w.data.routePoints # "none" => w.update.routePoints = w.data.routePoints
                 /\ w.data.mode # "none" => w.update.mode = w.data.mode

\* Both calls updated line 1 and succeeded; the first wrote routePoints rpB,
\* the second, which supplied none and had read rpA, wrote last: rpA is back.
C17_Witness ==
    /\ \A c \in Calls : calls[c].op = "updateLine" /\ calls[c].line = 1 /\ calls[c].result = "ok"
    /\ \E c \in Calls, d \in Calls :
         /\ c # d
         /\ calls[c].update.routePoints = "rpB"
         /\ calls[d].data.routePoints = "none" /\ calls[d].update.routePoints = "rpA"
         /\ LastWriter(1) = d
         /\ \E l \in Line : l.id = 1 /\ l.routePoints = "rpA" /\ l.mode = calls[d].update.mode

(***************************************************************************)
(* C18: an update or delete of an unknown id changes nothing               *)
(***************************************************************************)
\* The call is an updateLine or deleteLine naming a line that was not in
\* the named pad when the call ended (no other call having run).
C18_NotFound ==
    \A c \in Calls :
        (/\ calls[c].op \in {"updateLine", "deleteLine"}
         /\ calls[c].pc = "done"
         /\ \A d \in Calls \ {c} : calls[d].op = "none"
         /\ ~\E l \in Line0 : l.id = calls[c].line /\ l.padId = calls[c].pad)
        => /\ calls[c].result = "error"
           /\ Line = Line0 /\ LinePoint = LinePoint0
           /\ emitted = <<>>

\* C23: each stored track point belongs to exactly one line that exists;
\* deleteLine leaves no track point of its line, however it interleaves with
\* the point replacement of a createLine or updateLine for the same line.
C23_PointsHaveLine ==
    \A r \in LinePoint : Cardinality({ l \in Line : l.id = r.lineId }) = 1

\* A deleteLine succeeded while an updateLine of the same line was replacing
\* its points: the update had stored a batch and its next insert was
\* rejected; no point of the line remains.
C23_Witness ==
    \E c \in Calls, d \in Calls :
        /\ calls[c].op = "deleteLine" /\ calls[c].result = "ok"
        /\ calls[d].op = "updateLine" /\ calls[d].line = calls[c].line
        /\ calls[d].persisted /\ calls[d].inserted >= 1 /\ calls[d].result = "error"
        /\ \A l \in Line : l.id # calls[c].line
        /\ \A r \in LinePoint : r.lineId # calls[c].line

\* C29: the "linePoints" event of a createLine or of an updateLine that
\* recomputes the route comes after the "line" event of that call for the
\* same line: a client applying the events in the order of emission has
\* been sent the line before its points arrive.
C29_LineBeforePoints ==
    \A i \in DOMAIN emitted :
        emitted[i].type = "linePoints" =>
            \E j \in 1..(i - 1) :
                /\ emitted[j].type = "line"
                /\ emitted[j].id = emitted[i].id
                /\ emitted[j].call = emitted[i].call

\* A createLine and an updateLine with a new route have both emitted their
\* "line" and their "linePoints" events.
C29_Witness ==
    \E c \in Calls, d \in Calls :
        /\ calls[c].op = "createLine" /\ calls[c].result = "ok"
        /\ calls[d].op = "updateLine" /\ calls[d].routeInfo /\ calls[d].result = "ok"
        /\ EventsOf(c, {"linePoints"}) # {} /\ EventsOf(c, {"line"}) # {}
        /\ EventsOf(d, {"linePoints"}) # {} /\ EventsOf(d, {"line"}) # {}

(***************************************************************************)
(* C31: when updateLine replaces the track                                 *)
(***************************************************************************)
\* What a LineUpdate asks for against the stored line l: other route points,
\* another mode, or mode "track" (requested or stored) with track points.
AsksForRoute(d, l) ==
    LET newRoutePoints == IF d.routePoints = "none" THEN l.routePoints ELSE d.routePoints
        newMode == IF d.mode = "none" THEN l.mode ELSE d.mode
    IN \/ newRoutePoints # l.routePoints
       \/ newMode # l.mode
       \/ (newMode = "track" /\ d.trackPoints # "none")

\* C31: an updateLine that passed getLine replaces the stored track points
\* and emits 'linePoints' only when the request's route points differ from
\* the stored ones, its mode differs from the stored one, or the mode is
\* "track" and track points are supplied: such a call that completes has
\* emitted one 'line' and one 'linePoints' event and stored the last rows of
\* its track; any other updateLine never changes the LinePoint table, emits
\* no 'linePoints' event, and on completing has emitted exactly one 'line'.
C31_RouteOnlyWhenChanged ==
    [][ \A c \in Calls :
          /\ (calls[c].op = "none" /\ calls'[c].op = "updateLine" /\ calls'[c].pc = "update")
               => \E l \in Line :
                    /\ l.id = calls'[c].line /\ l.padId = calls'[c].pad
                    /\ calls'[c].routeInfo <=> AsksForRoute(calls'[c].data, l)
          /\ (calls[c].op = "updateLine" /\ calls'[c] # calls[c] /\ ~calls[c].routeInfo)
               => /\ LinePoint' = LinePoint
                  /\ EventsOf(c, {"linePoints"})' = {}
                  /\ calls'[c].result = "ok" => Cardinality(EventsOf(c, {"line"})') = 1
          /\ (calls[c].op = "updateLine" /\ calls'[c] # calls[c] /\ calls[c].routeInfo
                 /\ calls'[c].result = "ok")
               => /\ Cardinality(EventsOf(c, {"line"})') = 1
                  /\ Cardinality(EventsOf(c, {"linePoints"})') = 1
                  /\ PointRow(calls[c].line, calls[c].track[Len(calls[c].track)]) \in LinePoint'
      ]_vars

\* C31 witness: one updateLine that supplied track points to a line whose
\* mode is not "track" completed with its single 'line' event, and one that
\* supplied them with mode "track" completed with 'line' and 'linePoints'.
C31_Witness ==
    \E c, d \in Calls :
        /\ calls[c].op = "updateLine" /\ calls[c].result = "ok" /\ ~calls[c].routeInfo
        /\ calls[c].data = [routePoints |-> "none", mode |-> "none", trackPoints |-> "given"]
        /\ EventsOf(c, {"line"}) # {} /\ EventsOf(c, {"linePoints"}) = {}
        /\ calls[d].op = "updateLine" /\ calls[d].result = "ok" /\ calls[d].routeInfo
        /\ calls[d].data = [routePoints |-> "none", mode |-> "track", trackPoints |-> "given"]
        /\ EventsOf(d, {"linePoints"}) # {}

(***************************************************************************)
(* Markers: the mutations of database.js, their fan-out to the pad's       *)
(* listeners, the updateBbox fill and the client's handlers.               *)
(*                                                                         *)
(* A marker mutation is one step: the backend's write and, in its          *)
(* callback, notifyPadListeners and the reply to the caller.  The fill of  *)
(* an updateBbox request is three steps: the request sets the socket's     *)
(* bbox, the marker query reads the table, and the reply is sent once the  *)
(* line queries that follow it are through.  Messages to one client are    *)
(* handled in the order they were sent.  Every connection has joined pad 1 *)
(* and holds the result of a first updateBbox.                             *)
(***************************************************************************)
NumConns == 2
NumMutations == 2
NumFills == 2

Conns == 1..NumConns
Colours == {"ff0000", "00ff00"}
MarkerLons == {0, 179}

\* Two viewports, the second across the antimeridian; lon 0 lies in the
\* first only, lon 179 in the second only.
Views ==
    { [top |-> 2, bottom |-> 1, left |-> -170, right |-> 170],
      [top |-> 2, bottom |-> 1, left |-> 170, right |-> -170] }

View0 == [top |-> 2, bottom |-> 1, left |-> -170, right |-> 170]

Marker0 == [id |-> 1, lat |-> 1, lon |-> 0, colour |-> "ff0000"]

NoFill == [pc |-> "idle", bbox |-> <<>>, marker |-> {}]

\* utils.isInBbox(position, bbox), the test notifyPadListeners applies.
isInBbox(position, bbox) == makeBboxCondition(<<WithZoom(bbox, 1, <<>>)>>, position)

\* getPadMarkers(padId, bbox) of pad 1.
getPadMarkers(table, bbox) == { m \in table : makeBboxCondition(<<bbox>>, m) }

\* listeners.notifyPadListeners(padId, position, eventType, data): the
\* event goes to the pad's listeners whose bbox holds the position.
notifyPadListeners(ch, position, eventType, data) ==
    [c \in Conns |->
        IF isInBbox(position, sockets[c].bbox)
          THEN Append(ch[c], [kind |-> "event", type |-> eventType, data |-> data])
          ELSE ch[c]]

\* this._set(this.markers, id, marker) and this._delete(this.markers, id)
SetMarker(markers, m) == { x \in markers : x.id # m.id } \cup {m}
DeleteMarker_client(markers, id) == { x \in markers : x.id # id }

InitSync ==
    /\ Marker = {Marker0}
    /\ markerSeq = 2
    /\ sockets = [c \in Conns |-> [bbox |-> View0, fill |-> NoFill]]
    /\ channel = [c \in Conns |-> <<>>]
    /\ client = [c \in Conns |-> [markers |-> {Marker0}, bbox |-> View0]]
    /\ counts = [mutations |-> 0, fills |-> 0]
    /\ Line = {} /\ LinePoint = {} /\ nextId = 1
    /\ calls = <<>> /\ emitted = <<>> /\ q = NoQuery
    /\ DataIdle

Counted == counts' = [counts EXCEPT !.mutations = @ + 1]

\* addMarker of connection c: database.createMarker, then the reply, which
\* the client stores itself.
CreateMarker(c) ==
    /\ counts.mutations < NumMutations
    /\ \E lon \in MarkerLons, colour \in Colours :
         LET data == [id |-> markerSeq, lat |-> 1, lon |-> lon, colour |-> colour]
             sent == notifyPadListeners(channel, data, "marker", data)
         IN \/ /\ Marker' = Marker \cup {data}
               /\ markerSeq' = markerSeq + 1
               /\ channel' = [sent EXCEPT ![c] =
                                Append(@, [kind |-> "response", request |-> "addMarker", data |-> data])]
            \/ UNCHANGED <<Marker, markerSeq, channel>>
    /\ Counted
    /\ UNCHANGED <<sockets, client, Line, LinePoint, nextId, calls, emitted, q>>
    /\ UNCHANGED dataVars

\* editMarker of connection c: database.updateMarker.
UpdateMarker(c) ==
    /\ counts.mutations < NumMutations
    /\ \E markerId \in 1..markerSeq, colour \in Colours :
         \/ /\ \E m \in Marker : m.id = markerId
            /\ LET data == [(CHOOSE m \in Marker : m.id = markerId) EXCEPT !.colour = colour]
               IN /\ Marker' = { m \in Marker : m.id # markerId } \cup {data}
                  /\ channel' = notifyPadListeners(channel, data, "marker", data)
         \/ UNCHANGED <<Marker, channel>>
    /\ Counted
    /\ UNCHANGED <<markerSeq, sockets, client, Line, LinePoint, nextId, calls, emitted, q>>
    /\ UNCHANGED dataVars

\* deleteMarker of connection c: database.deleteMarker.
DeleteMarker(c) ==
    /\ counts.mutations < NumMutations
    /\ \E markerId \in 1..markerSeq :
         \/ /\ \E m \in Marker : m.id = markerId
            /\ LET data == CHOOSE m \in Marker : m.id = markerId
               IN /\ Marker' = Marker \ {data}
                  /\ channel' = notifyPadListeners(channel, data, "deleteMarker", [id |-> data.id])
         \/ UNCHANGED <<Marker, channel>>
    /\ Counted
    /\ UNCHANGED <<markerSeq, sockets, client, Line, LinePoint, nextId, calls, emitted, q>>
    /\ UNCHANGED dataVars

\* Client.updateBbox and the arrival of its request: the socket's bbox is
\* replaced, the old one becoming the except of the query.
UpdateBbox_emit(c) ==
    /\ sockets[c].fill.pc = "idle"
    /\ counts.fills < NumFills
    /\ \E bbox \in Views :
         /\ client' = [client EXCEPT ![c].bbox = bbox]
         /\ sockets' = [sockets EXCEPT ![c] =
                          [bbox |-> bbox,
                           fill |-> [pc |-> "markers",
                                     bbox |-> <<WithZoom(bbox, 1, <<sockets[c].bbox>>)>>,
                                     marker |-> {}]]]
    /\ counts' = [counts EXCEPT !.fills = @ + 1]
    /\ UNCHANGED <<Marker, markerSeq, channel, Line, LinePoint, nextId, calls, emitted, q>>
    /\ UNCHANGED dataVars

\* The fill's marker query.
UpdateBbox_getPadMarkers(c) ==
    /\ sockets[c].fill.pc = "markers"
    /\ sockets' = [sockets EXCEPT ![c].fill.pc = "respond",
                                  ![c].fill.marker = getPadMarkers(Marker, sockets[c].fill.bbox[1])]
    /\ UNCHANGED <<Marker, markerSeq, channel, client, counts,
                   Line, LinePoint, nextId, calls, emitted, q>>
    /\ UNCHANGED dataVars

\* The fill's reply, after its remaining queries.
UpdateBbox_respond(c) ==
    /\ sockets[c].fill.pc = "respond"
    /\ channel' = [channel EXCEPT ![c] =
                     Append(@, [kind |-> "response", request |-> "updateBbox",
                                marker |-> sockets[c].fill.marker])]
    /\ sockets' = [sockets EXCEPT ![c].fill = NoFill]
    /\ UNCHANGED <<Marker, markerSeq, client, counts,
                   Line, LinePoint, nextId, calls, emitted, q>>
    /\ UNCHANGED dataVars

\* this._receiveMultiple(obj): each marker of the reply as a marker event.
receiveMultiple(markers, obj) ==
    { x \in markers : \A m \in obj : m.id # x.id } \cup obj

\* The client handles the next message: an event by its handler, the reply
\* to updateBbox by _receiveMultiple, the reply to addMarker by _set.
Client_receive(c) ==
    /\ channel[c] # <<>>
    /\ LET msg == Head(channel[c])
       IN client' = [client EXCEPT ![c].markers =
            IF msg.kind = "event"
              THEN IF msg.type = "marker" THEN SetMarker(@, msg.data)
                   ELSE DeleteMarker_client(@, msg.data.id)
              ELSE IF msg.request = "updateBbox" THEN receiveMultiple(@, msg.marker)
                   ELSE SetMarker(@, msg.data)]
    /\ channel' = [channel EXCEPT ![c] = Tail(@)]
    /\ UNCHANGED <<Marker, markerSeq, sockets, counts,
                   Line, LinePoint, nextId, calls, emitted, q>>
    /\ UNCHANGED dataVars

NextSync ==
    \/ \E c \in Conns : CreateMarker(c)
    \/ \E c \in Conns : UpdateMarker(c)
    \/ \E c \in Conns : DeleteMarker(c)
    \/ \E c \in Conns : UpdateBbox_emit(c)
    \/ \E c \in Conns : UpdateBbox_getPadMarkers(c)
    \/ \E c \in Conns : UpdateBbox_respond(c)
    \/ \E c \in Conns : Client_receive(c)

SpecSync == InitSync /\ [][NextSync]_vars

(***************************************************************************)
(* C4: change events reach every subscriber, whatever its viewport         *)
(***************************************************************************)
\* C4: a change of a marker (created, edited or deleted) is delivered as an
\* event to every connection of the pad, whatever the connection's bbox: in
\* the step that changes the Marker table every connection's channel gets
\* a message.
C4_FanOut ==
    [][Marker' # Marker => \A c \in Conns : Len(channel'[c]) > Len(channel[c])]_vars

(***************************************************************************)
(* C5: a fill and a concurrent mutation leave the client up to date        *)
(***************************************************************************)
\* The client's copy of marker id is the stored one: the same row, or
\* neither has it.
UpToDate(markers, id) == { x \in markers : x.id = id } = { x \in Marker : x.id = id }

\* An event about marker id is among the messages msgs.
EventPending(msgs, id) ==
    \E i \in DOMAIN msgs : msgs[i].kind = "event" /\ msgs[i].data.id = id

\* C5: the reply of a fill that raced a mutation does not undo what the
\* mutation's event brought: when client c handles an updateBbox reply, a
\* marker of the reply of which the client's copy was the stored one, and
\* about which no event is still to be handled, is still so afterwards: the
\* reply neither puts an older version over the newer one nor adds back a
\* marker that was deleted.
C5_FillRace ==
    [][\A c \in Conns :
          (/\ channel[c] # <<>>
           /\ channel'[c] = Tail(channel[c])
           /\ Head(channel[c]).kind = "response"
           /\ Head(channel[c]).request = "updateBbox")
          => \A m \in Head(channel[c]).marker :
                (UpToDate(client[c].markers, m.id) /\ ~EventPending(Tail(channel[c]), m.id))
                  => UpToDate(client'[c].markers, m.id)]_vars

(***************************************************************************)
(* The client's track points: Client._mergeTrackPoints.                    *)
(*                                                                         *)
(* A track-point object is [pts, length]: pts maps the indices it holds to *)
(* their points, length is its "length" property.                          *)
(***************************************************************************)
MaxBatch == 2

PointIdxs == {0, 1, 3}
PointLats == {1, 2}
ClientPoints == [idx : PointIdxs, lat : PointLats]

\* The arrays of track points an event may carry.
Batches == UNION { [1..n -> ClientPoints] : n \in 0..MaxBatch }

\* The object { } (what "existingTrackPoints || { }" and a reset start from).
EmptyTrackPoints == [pts |-> <<>>, length |-> 0]

\* ret[k] = v
Put(ret, k, v) == [x \in (DOMAIN ret) \cup {k} |-> IF x = k THEN v ELSE ret[x]]

\* Mutant of AssignPoints: an index already held keeps its point.
RECURSIVE AssignPoints_firstWins(_, _, _)
AssignPoints_firstWins(ret, newTrackPoints, i) ==
    IF i > Len(newTrackPoints) THEN ret
    ELSE AssignPoints_firstWins(
             IF newTrackPoints[i].idx \in DOMAIN ret THEN ret
             ELSE Put(ret, newTrackPoints[i].idx, newTrackPoints[i]),
             newTrackPoints, i + 1)

\* for(let i=0; i<newTrackPoints.length; i++) ret[newTrackPoints[i].idx] = newTrackPoints[i];
RECURSIVE AssignPoints(_, _, _)
AssignPoints(ret, newTrackPoints, i) ==
    IF i > Len(newTrackPoints) THEN ret
    ELSE AssignPoints(Put(ret, newTrackPoints[i].idx, newTrackPoints[i]), newTrackPoints, i + 1)

\* Mutant of LengthOf: the number of points held.
LengthOf_count(pts) == Cardinality(DOMAIN pts)

\* ret.length = 0; for(const i in ret) if(i != "length") ret.length = Math.max(ret.length, parseInt(i) + 1);
LengthOf(pts) ==
    LET cands == {0} \cup { i + 1 : i \in DOMAIN pts }
    IN CHOOSE m \in cands : \A x \in cands : m >= x

\* Mutant of mergeTrackPoints: the points held are dropped.
mergeTrackPoints_replace(existingTrackPoints, newTrackPoints) ==
    LET ret == AssignPoints(<<>>, newTrackPoints, 1)
    IN [pts |-> ret, length |-> LengthOf(ret)]

\* _mergeTrackPoints(existingTrackPoints, newTrackPoints): the object returned.
mergeTrackPoints(existingTrackPoints, newTrackPoints) ==
    LET ret == AssignPoints(existingTrackPoints.pts, newTrackPoints, 1)
    IN [pts |-> ret, length |-> LengthOf(ret)]

\* The object passed as existingTrackPoints, after the call: ret is a copy
\* ({ ...existingTrackPoints }) and every assignment goes to ret.
existingAfterMerge(existingTrackPoints, newTrackPoints) == existingTrackPoints

InitMerge ==
    /\ q = NoQuery
    /\ Line = {} /\ LinePoint = {}
    /\ nextId = 1 /\ calls = <<>> /\ emitted = <<>>
    /\ SyncIdle
    /\ DataIdle

\* Two batches merged one after the other, and merged as one array in
\* either order.
MergeBatches ==
    /\ q = NoQuery
    /\ \E p1 \in Batches, p2 \in Batches :
         q' = [kind |-> "merge", p1 |-> p1, p2 |-> p2,
               first |-> mergeTrackPoints(EmptyTrackPoints, p1),
               seq   |-> mergeTrackPoints(mergeTrackPoints(EmptyTrackPoints, p1), p2),
               joint |-> mergeTrackPoints(EmptyTrackPoints, p1 \o p2),
               rev   |-> mergeTrackPoints(EmptyTrackPoints, p2 \o p1)]
    /\ UNCHANGED <<Line, LinePoint, callVars, syncVars>>
    /\ UNCHANGED dataVars

NextMerge == MergeBatches

SpecMerge == InitMerge /\ [][NextMerge]_vars

(***************************************************************************)
(* C11: merging is order-insensitive on disjoint indices, last wins else   *)
(***************************************************************************)
IdxsOf(batch) == { batch[i].idx : i \in DOMAIN batch }

\* The last element of the array with index idx.
LastWith(batch, idx) ==
    batch[CHOOSE i \in DOMAIN batch :
            /\ batch[i].idx = idx
            /\ \A j \in DOMAIN batch : batch[j].idx = idx => j <= i]

\* C11: for batches P1, P2 with disjoint indices, merging P1 then P2 equals
\* merging their union at once (in either order); in any case each index of
\* P2 holds P2's point afterwards, and within one batch the later array
\* element of an index wins.
C11_MergeOrder ==
    q.kind = "merge" =>
        /\ (IdxsOf(q.p1) \cap IdxsOf(q.p2) = {}) => (q.seq = q.joint /\ q.seq = q.rev)
        /\ \A i \in IdxsOf(q.p2) : q.seq.pts[i] = LastWith(q.p2, i)
        /\ \A i \in IdxsOf(q.p1) : q.first.pts[i] = LastWith(q.p1, i)

\* Two batches that share an index with different points, the first also
\* holding an index of its own, out of order.
C11_Witness ==
    /\ q.kind = "merge"
    /\ \E i \in IdxsOf(q.p1) \cap IdxsOf(q.p2) : LastWith(q.p1, i) # LastWith(q.p2, i)
    /\ IdxsOf(q.p1) \ IdxsOf(q.p2) # {}
    /\ Len(q.p1) = 2 /\ q.p1[1].idx > q.p1[2].idx
    /\ \A i \in IdxsOf(q.p2) : q.seq.pts[i] = LastWith(q.p2, i)

(***************************************************************************)
(* The client's collections: the handlers of Client._handlers.             *)
(*                                                                         *)
(* client is the Client object: markers, lines, views and types map the    *)
(* ids held to their objects, a line carrying its track-point object;      *)
(* padData is the pad's data, NoPadData before any arrived.  Each action   *)
(* is the delivery of one event; q records the event and the client        *)
(* before it.                                                              *)
(***************************************************************************)
\* null, as an id
NoId == 0

ClientIds == {1, 2}
NoPadData == [id |-> "none", defaultViewId |-> NoId, writable |-> "null"]

\* The points of the linePoints events delivered to the client.
EventPoints == { [idx |-> 0, lat |-> 1], [idx |-> 0, lat |-> 2], [idx |-> 2, lat |-> 1] }
EventBatches == UNION { [1..n -> EventPoints] : n \in 0..MaxBatch }

\* Mutant of clientSet: setting a key to the value it has removes it.
clientSet_toggle(object, key, value) ==
    IF key \in DOMAIN object /\ object[key] = value
      THEN [x \in (DOMAIN object) \ {key} |-> object[x]]
      ELSE Put(object, key, value)

\* object[key] = value
clientSet(object, key, value) == Put(object, key, value)

\* Mutant of clientDelete: nothing is removed.
clientDelete_keep(object, key) == object

\* delete object[key]
clientDelete(object, key) == [x \in (DOMAIN object) \ {key} |-> object[x]]

handle_marker(cl, data) == [cl EXCEPT !.markers = clientSet(@, data.id, data)]

handle_deleteMarker(cl, data) == [cl EXCEPT !.markers = clientDelete(@, data.id)]

\* Mutant of handle_line: the line is stored with an empty track-point object.
handle_line_empty(cl, data) ==
    [cl EXCEPT !.lines =
        clientSet(@, data.id,
                  [id |-> data.id, colour |-> data.colour, trackPoints |-> EmptyTrackPoints])]

handle_line(cl, data) ==
    [cl EXCEPT !.lines =
        clientSet(@, data.id,
                  [id |-> data.id, colour |-> data.colour,
                   trackPoints |-> IF data.id \in DOMAIN @ THEN @[data.id].trackPoints
                                   ELSE EmptyTrackPoints])]

handle_deleteLine(cl, data) == [cl EXCEPT !.lines = clientDelete(@, data.id)]

\* Mutant of mergeBase: a reset keeps the points held.
mergeBase_keep(reset, trackPoints) == trackPoints

\* data.reset ? {} : line.trackPoints
mergeBase(reset, trackPoints) == IF reset THEN EmptyTrackPoints ELSE trackPoints

\* Mutant of handle_linePoints: points for a line not held create the line.
handle_linePoints_create(cl, data) ==
    IF data.id \notin DOMAIN cl.lines
      THEN [cl EXCEPT !.lines =
              clientSet(@, data.id,
                        [id |-> data.id, colour |-> "ff0000",
                         trackPoints |-> mergeTrackPoints(EmptyTrackPoints, data.trackPoints)])]
    ELSE [cl EXCEPT !.lines[data.id].trackPoints =
             mergeTrackPoints(mergeBase(data.reset, @), data.trackPoints)]

handle_linePoints(cl, data) ==
    IF data.id \notin DOMAIN cl.lines THEN cl
    ELSE [cl EXCEPT !.lines[data.id].trackPoints =
             mergeTrackPoints(mergeBase(data.reset, @), data.trackPoints)]

handle_view(cl, data) == [cl EXCEPT !.views = clientSet(@, data.id, data)]

\* Mutant of handle_deleteView: the view is removed, the pad data is left alone.
handle_deleteView_keepDefault(cl, data) == [cl EXCEPT !.views = clientDelete(@, data.id)]

handle_deleteView(cl, data) ==
    LET deleted == [cl EXCEPT !.views = clientDelete(@, data.id)]
    IN IF cl.padData # NoPadData /\ cl.padData.defaultViewId = data.id
         THEN [deleted EXCEPT !.padData.defaultViewId = NoId]
         ELSE deleted

handle_type(cl, data) == [cl EXCEPT !.types = clientSet(@, data.id, data)]

handle_deleteType(cl, data) == [cl EXCEPT !.types = clientDelete(@, data.id)]

\* Mutant of handle_padData: writable is taken from the event, readonly is
\* left as it is.
handle_padData_writableOnly(cl, data) ==
    LET withData == [cl EXCEPT !.padData = data]
        withWritable == IF data.writable # "null"
                          THEN [withData EXCEPT !.writable = data.writable]
                          ELSE withData
        id == IF withWritable.writable = "2" THEN data.adminId
              ELSE IF withWritable.writable = "1" THEN data.writeId ELSE data.id
    IN IF id # "null" THEN [withWritable EXCEPT !.padId = id] ELSE withWritable

handle_padData(cl, data) ==
    LET withData == [cl EXCEPT !.padData = data]
        withWritable == IF data.writable # "null"
                          THEN [withData EXCEPT !.readonly = IF data.writable = "0" THEN "true" ELSE "false",
                                                !.writable = data.writable]
                          ELSE withData
        id == IF withWritable.writable = "2" THEN data.adminId
              ELSE IF withWritable.writable = "1" THEN data.writeId ELSE data.id
    IN IF id # "null" THEN [withWritable EXCEPT !.padId = id] ELSE withWritable

handle_deletePad(cl) ==
    [cl EXCEPT !.readonly = "true", !.writable = "0", !.deleted = TRUE]

handle_disconnect(cl) ==
    [cl EXCEPT !.disconnected = TRUE, !.markers = <<>>, !.lines = <<>>, !.views = <<>>]

handle_connect(cl) == [cl EXCEPT !.disconnected = FALSE]

\* The handler of the event named name.
handle(name, cl, data) ==
    CASE name = "marker" -> handle_marker(cl, data)
      [] name = "deleteMarker" -> handle_deleteMarker(cl, data)
      [] name = "line" -> handle_line(cl, data)
      [] name = "deleteLine" -> handle_deleteLine(cl, data)
      [] name = "linePoints" -> handle_linePoints(cl, data)
      [] name = "view" -> handle_view(cl, data)
      [] name = "deleteView" -> handle_deleteView(cl, data)
      [] name = "type" -> handle_type(cl, data)
      [] name = "deleteType" -> handle_deleteType(cl, data)
      [] name = "padData" -> handle_padData(cl, data)
      [] name = "deletePad" -> handle_deletePad(cl)
      [] name = "disconnect" -> handle_disconnect(cl)
      [] name = "connect" -> handle_connect(cl)

Client0 ==
    [markers |-> <<>>, lines |-> <<>>, views |-> <<>>, types |-> <<>>,
     padData |-> NoPadData, padId |-> "p1", readonly |-> "undefined", writable |-> "undefined",
     disconnected |-> TRUE]

InitClient ==
    /\ client = Client0
    /\ q = NoQuery
    /\ Marker = {} /\ markerSeq = 1
    /\ sockets = <<>> /\ channel = <<>> /\ counts = <<>>
    /\ Line = {} /\ LinePoint = {}
    /\ nextId = 1 /\ calls = <<>> /\ emitted = <<>>
    /\ DataIdle

\* The event name with data is delivered and handled.
Deliver(name, data) ==
    /\ client' = handle(name, client, data)
    /\ q' = [kind |-> "event", name |-> name, data |-> data, before |-> client]
    /\ UNCHANGED <<Line, LinePoint, callVars, Marker, markerSeq, sockets, channel, counts>>
    /\ UNCHANGED dataVars

Ev_marker ==
    /\ ~client.disconnected
    /\ \E data \in [id : {1}, colour : Colours] : Deliver("marker", data)

Ev_deleteMarker ==
    /\ ~client.disconnected
    /\ \E id \in ClientIds : Deliver("deleteMarker", [id |-> id])

Ev_line ==
    /\ ~client.disconnected
    /\ \E data \in [id : {1}, colour : {"0000ff"}] : Deliver("line", data)

Ev_deleteLine ==
    /\ ~client.disconnected
    /\ \E id \in ClientIds : Deliver("deleteLine", [id |-> id])

Ev_linePoints ==
    /\ ~client.disconnected
    /\ \/ \E trackPoints \in EventBatches, reset \in BOOLEAN :
             Deliver("linePoints", [id |-> 1, trackPoints |-> trackPoints, reset |-> reset])
       \/ Deliver("linePoints", [id |-> 2, trackPoints |-> <<[idx |-> 0, lat |-> 1]>>, reset |-> FALSE])

Ev_view ==
    /\ ~client.disconnected
    /\ Deliver("view", [id |-> 1, name |-> "view"])

Ev_deleteView ==
    /\ ~client.disconnected
    /\ \E id \in ClientIds : Deliver("deleteView", [id |-> id])

Ev_type ==
    /\ ~client.disconnected
    /\ Deliver("type", [id |-> 1, name |-> "type"])

Ev_deleteType ==
    /\ ~client.disconnected
    /\ \E id \in ClientIds : Deliver("deleteType", [id |-> id])

\* The pad's data names as default view a view of the pad, which the
\* client was sent, or none.
Ev_padData ==
    /\ ~client.disconnected
    /\ \E defaultViewId \in {NoId} \cup DOMAIN client.views :
         Deliver("padData", [id |-> "p1", writeId |-> "w1", adminId |-> "a1",
                             defaultViewId |-> defaultViewId, writable |-> "null"])

Ev_disconnect ==
    /\ ~client.disconnected
    /\ Deliver("disconnect", <<>>)

Ev_connect ==
    /\ client.disconnected
    /\ Deliver("connect", <<>>)

NextClient ==
    \/ Ev_marker \/ Ev_deleteMarker
    \/ Ev_line \/ Ev_deleteLine \/ Ev_linePoints
    \/ Ev_view \/ Ev_deleteView
    \/ Ev_type \/ Ev_deleteType
    \/ Ev_padData
    \/ Ev_disconnect \/ Ev_connect

SpecClient == InitClient /\ [][NextClient]_vars

(***************************************************************************)
(* C12: a merge without reset never removes a point                        *)
(***************************************************************************)
\* The last event was name, about an id and a collection held before it.
LastEvent(name) == q.kind = "event" /\ q.name = name

C13_Length ==
    \A id \in DOMAIN client.lines :
        LET tp == client.lines[id].trackPoints
        IN IF DOMAIN tp.pts = {} THEN tp.length = 0
           ELSE /\ tp.length - 1 \in DOMAIN tp.pts
                /\ \A i \in DOMAIN tp.pts : i < tp.length

\* After a reset the line holds index 2 alone, having held index 0 before.
C13_Witness ==
    /\ LastEvent("linePoints") /\ q.data.reset /\ q.data.id \in DOMAIN q.before.lines
    /\ 0 \in DOMAIN q.before.lines[q.data.id].trackPoints.pts
    /\ DOMAIN client.lines[q.data.id].trackPoints.pts = {2}
    /\ client.lines[q.data.id].trackPoints.length = 3

(***************************************************************************)
(* C14: a reset discards the points held                                   *)
(***************************************************************************)
\* C14: after a linePoints event with reset for a line the client holds,
\* the line's indices are exactly the indices of the event's points.
C14_Reset ==
    (LastEvent("linePoints") /\ q.data.reset /\ q.data.id \in DOMAIN q.before.lines) =>
        DOMAIN client.lines[q.data.id].trackPoints.pts = IdxsOf(q.data.trackPoints)

\* A reset whose points leave out an index held before.
C14_Witness ==
    /\ LastEvent("linePoints") /\ q.data.reset /\ q.data.id \in DOMAIN q.before.lines
    /\ DOMAIN q.before.lines[q.data.id].trackPoints.pts = {0, 2}
    /\ IdxsOf(q.data.trackPoints) = {0}
    /\ DOMAIN client.lines[q.data.id].trackPoints.pts = {0}

(***************************************************************************)
(* C15: marker and line upserts are idempotent                             *)
(***************************************************************************)
\* C15: once a marker or line event was handled, handling the same event
\* again leaves the client as it is.
C15_UpsertIdempotent ==
    (LastEvent("marker") \/ LastEvent("line")) => handle(q.name, client, q.data) = client

\* A line event for a line held with track points, which it keeps.
C15_Witness ==
    /\ LastEvent("line")
    /\ q.data.id \in DOMAIN q.before.lines
    /\ client.lines[q.data.id].trackPoints.length = 3
    /\ handle("line", client, q.data) = client

(***************************************************************************)
(* Line event specification: the client's lines under line, deleteLine     *)
(* and linePoints events for two ids, beside a marker                      *)
(***************************************************************************)
\* A line event for either id, in either colour.
Ev_lines ==
    /\ ~client.disconnected
    /\ \E data \in [id : ClientIds, colour : Colours] : Deliver("line", data)

NextLines ==
    \/ Ev_lines \/ Ev_deleteLine \/ Ev_linePoints
    \/ Ev_marker
    \/ Ev_disconnect \/ Ev_connect

SpecLines == InitClient /\ [][NextLines]_vars

(***************************************************************************)
(* C32: a line upsert keeps the track points held                          *)
(***************************************************************************)
\* The indices the client knows for line id: none for a line it does not hold.
KnownIdxs(cl, id) ==
    IF id \in DOMAIN cl.lines THEN DOMAIN cl.lines[id].trackPoints.pts ELSE {}

\* C32: after a line event the client holds the line with the event's
\* attributes; its track points are those held for that id before, or the
\* empty mapping of length 0 when the id was not held; every other line is
\* as before, so no line's set of known indices has changed.
C32_LineKeepsPoints ==
    LastEvent("line") =>
        /\ DOMAIN client.lines = DOMAIN q.before.lines \cup {q.data.id}
        /\ client.lines[q.data.id].id = q.data.id
        /\ client.lines[q.data.id].colour = q.data.colour
        /\ client.lines[q.data.id].trackPoints =
              IF q.data.id \in DOMAIN q.before.lines
                THEN q.before.lines[q.data.id].trackPoints
                ELSE [pts |-> <<>>, length |-> 0]
        /\ \A id \in DOMAIN q.before.lines \ {q.data.id} : client.lines[id] = q.before.lines[id]
        /\ \A id \in ClientIds : KnownIdxs(client, id) = KnownIdxs(q.before, id)

\* C32 witness: a line held with points at 0 and 2 got another colour and
\* kept both points.
C32_Witness ==
    /\ LastEvent("line")
    /\ q.data.id \in DOMAIN q.before.lines
    /\ q.before.lines[q.data.id].colour # q.data.colour
    /\ client.lines[q.data.id].colour = q.data.colour
    /\ DOMAIN client.lines[q.data.id].trackPoints.pts = {0, 2}

(***************************************************************************)
(* C33: line points for a line not held                                    *)
(***************************************************************************)
\* C33: a linePoints event for an id the client does not hold leaves the
\* client as it was: no line is created, and its lines, markers and every
\* other field are unchanged.
C33_UnknownLineDropped ==
    (LastEvent("linePoints") /\ q.data.id \notin DOMAIN q.before.lines) =>
        /\ client = q.before
        /\ q.data.id \notin DOMAIN client.lines

\* C33 witness: points with a non-empty batch arrived for a line not held
\* while the client held another line and a marker.
C33_Witness ==
    /\ LastEvent("linePoints")
    /\ q.data.id \notin DOMAIN q.before.lines
    /\ q.data.trackPoints # <<>>
    /\ DOMAIN q.before.lines # {} /\ DOMAIN q.before.markers # {}
    /\ client = q.before

(***************************************************************************)
(* C16: delete events remove by id; unknown ids are no-ops                 *)
(***************************************************************************)
DeleteEvents == {"deleteMarker", "deleteLine", "deleteView", "deleteType"}

\* The collection a delete event is about.
CollectionOf(name, cl) ==
    CASE name = "deleteMarker" -> cl.markers
      [] name = "deleteLine" -> cl.lines
      [] name = "deleteView" -> cl.views
      [] name = "deleteType" -> cl.types

\* C16 as stated: a delete event removes the object with its id; when the
\* id is not held the whole client is left as it was; handling it twice
\* equals handling it once.
C16_DeleteOriginal ==
    (q.kind = "event" /\ q.name \in DeleteEvents) =>
        /\ q.data.id \notin DOMAIN CollectionOf(q.name, client)
        /\ q.data.id \notin DOMAIN CollectionOf(q.name, q.before) => client = q.before
        /\ handle(q.name, client, q.data) = client

\* C16, amended: a delete event removes the object with its id and leaves
\* every other object alone; when the id is not held the four collections
\* are left as they were, and so is the rest of the client but for
\* padData.defaultViewId, which deleteView sets to null when it is the id,
\* held or not; handling the event twice equals handling it once.
C16_DeleteById ==
    (q.kind = "event" /\ q.name \in DeleteEvents) =>
        /\ DOMAIN CollectionOf(q.name, client) = (DOMAIN CollectionOf(q.name, q.before)) \ {q.data.id}
        /\ \A k \in DOMAIN CollectionOf(q.name, client) :
              CollectionOf(q.name, client)[k] = CollectionOf(q.name, q.before)[k]
        /\ q.data.id \notin DOMAIN CollectionOf(q.name, q.before) =>
              client = [q.before EXCEPT !.padData.defaultViewId =
                           IF q.name = "deleteView" /\ @ = q.data.id THEN NoId ELSE @]
        /\ handle(q.name, client, q.data) = client

\* A deleteView for a view the client no longer holds and which the pad
\* data names as default.
C16_Witness ==
    /\ LastEvent("deleteView")
    /\ q.data.id \notin DOMAIN q.before.views
    /\ q.before.padData.defaultViewId = q.data.id
    /\ client.padData.defaultViewId = NoId

(***************************************************************************)
(* C37: the default view after a deleteView event                          *)
(***************************************************************************)
\* C37: after a deleteView event for view v the pad data's defaultViewId is
\* not v: it is null when it was v, with the rest of the pad data as before,
\* and the pad data is unchanged otherwise.
C37_DefaultViewCleared ==
    LastEvent("deleteView") =>
        /\ client.padData.defaultViewId # q.data.id
        /\ q.before.padData.defaultViewId = q.data.id
             => client.padData = [q.before.padData EXCEPT !.defaultViewId = NoId]
        /\ q.before.padData.defaultViewId # q.data.id
             => client.padData = q.before.padData

\* C37 witness: the view the client holds and the pad data names as default
\* was deleted, and the default is null.
C37_Witness ==
    /\ LastEvent("deleteView")
    /\ q.data.id \in DOMAIN q.before.views
    /\ q.before.padData.defaultViewId = q.data.id
    /\ q.data.id \notin DOMAIN client.views
    /\ client.padData.defaultViewId = NoId
    /\ client.padData.id = q.before.padData.id

(***************************************************************************)
(* Validation in the older backend: createLine, updateLine, createType and *)
(* updateType of the functions _createPadObjectWithData,                   *)
(* _updatePadObjectWithData, _createPadObject and _updatePadObject.  A     *)
(* call is a chain of promise callbacks; _updatePadObjectWithData starts   *)
(* the row update and the replacement of the data rows together, so the    *)
(* steps of the two branches interleave.                                   *)
(***************************************************************************)

\* routePoints values a request carries: arrays of one and of two points,
\* the empty array, and a value that is not an array.
RoutePointInputs ==
    { [isArray |-> TRUE, entries |-> <<>>],
      [isArray |-> TRUE, entries |-> <<1>>],
      [isArray |-> TRUE, entries |-> <<1, 2>>],
      [isArray |-> TRUE, entries |-> <<2, 1>>],
      [isArray |-> FALSE, entries |-> <<>>] }

\* data.data of a request: null, or an object name -> value.
DataObjects == { {}, { [name |-> "k", value |-> "v1"] }, { [name |-> "k", value |-> "v2"] } }
DataInputs == { [isNull |-> TRUE, obj |-> {}] } \cup { [isNull |-> FALSE, obj |-> o] : o \in DataObjects }

\* What createLine and updateLine are called with.
LineInputs == [hasRoutePoints : BOOLEAN, routePoints : RoutePointInputs, data : DataInputs]

\* The fields of a type, by name; " " is a name of white space only, "a "
\* a name with a trailing blank.
FieldInputs == { <<"a">>, <<"a", "b">>, <<"a", "a">>, <<" ">>, <<"a", "">>, <<"a", "a ">> }

\* Mutant of trim: the name is returned as it is.
trim_identity(name) == name

\* String.prototype.trim on the names above.
trim(name) == IF name = " " THEN "" ELSE IF name = "a " THEN "a" ELSE name

\* routePoints.validate.minTwo: TRUE when it does not throw.
minTwo(val) == val.isArray /\ Len(val.entries) >= 2

\* Mutant of checkUniqueFieldName: a name is compared with the one before
\* it only, and is not trimmed.
RECURSIVE checkUniqueFieldName_previous(_, _, _)
checkUniqueFieldName_previous(obj, i, fields) ==
    IF i > Len(obj) THEN TRUE
    ELSE IF obj[i] = "" THEN FALSE
    ELSE IF i > 2 /\ obj[i] = obj[i - 1] THEN FALSE
    ELSE checkUniqueFieldName_previous(obj, i + 1, fields \cup {obj[i]})

\* fields.validate.checkUniqueFieldName from field i on, fields being the
\* names seen so far: TRUE when it does not throw.
RECURSIVE checkUniqueFieldName(_, _, _)
checkUniqueFieldName(obj, i, fields) ==
    IF i > Len(obj) THEN TRUE
    ELSE IF trim(obj[i]) = "" THEN FALSE
    ELSE IF obj[i] \in fields THEN FALSE
    ELSE checkUniqueFieldName(obj, i + 1, fields \cup {obj[i]})

\* _dataToArr(data, { lineId: objId })
dataToArr(data, objId) == { [lineId |-> objId, name |-> d.name, value |-> d.value] : d \in data }

\* The pad holds line 1 with one data row, and type 1.
LineOld0 == { [id |-> 1, padId |-> 1, routePoints |-> [isArray |-> TRUE, entries |-> <<1, 2>>]] }
LineData0 == { [lineId |-> 1, name |-> "k", value |-> "v1"] }
Type0 == { [id |-> 1, padId |-> 1, fields |-> <<"a">>] }

\* No call: pc is the position of the row branch, dpc of the data branch.
NoOldCall ==
    [op |-> "none", pc |-> "idle", dpc |-> "idle", id |-> 0,
     data |-> [hasRoutePoints |-> FALSE, routePoints |-> [isArray |-> FALSE, entries |-> <<>>],
               data |-> [isNull |-> TRUE, obj |-> {}]],
     fields |-> <<>>, result |-> "pending"]

InitData ==
    /\ Line = LineOld0 /\ LineData = LineData0 /\ Type = Type0
    /\ History = <<>> /\ Pad = {} /\ View = {}
    /\ LinePoint = {}
    /\ nextId = 2
    /\ calls = [c \in Calls |-> NoOldCall]
    /\ emitted = <<>>
    /\ q = NoQuery
    /\ SyncIdle

\* createLine(padId, data): build the object of _createPadObject.
createLine(c, data) ==
    /\ calls[c].op = "none"
    /\ calls' = [calls EXCEPT ![c] = [NoOldCall EXCEPT !.op = "createLine", !.pc = "save", !.data = data]]
    /\ UNCHANGED <<Line, LinePoint, LineData, Type, nextId, emitted, q, syncVars>>
    /\ UNCHANGED <<History, Pad, View>>

\* createType(padId, data)
createType(c, fields) ==
    /\ calls[c].op = "none"
    /\ calls' = [calls EXCEPT ![c] = [NoOldCall EXCEPT !.op = "createType", !.pc = "save", !.fields = fields]]
    /\ UNCHANGED <<Line, LinePoint, LineData, Type, nextId, emitted, q, syncVars>>
    /\ UNCHANGED <<History, Pad, View>>

\* obj.save() of _createPadObject: the row is validated, then inserted; with
\* data.data, _createPadObjectWithData goes on to _setObjectData.
createPadObject_save(c) ==
    /\ calls[c].pc = "save"
    /\ \/ /\ calls[c].op = "createLine"
          /\ calls[c].data.hasRoutePoints /\ minTwo(calls[c].data.routePoints)
          /\ Line' = Line \cup { [id |-> nextId, padId |-> 1,
                                  routePoints |-> calls[c].data.routePoints] }
          /\ nextId' = nextId + 1
          /\ calls' = [calls EXCEPT ![c].pc = "saved", ![c].id = nextId,
                                    ![c].dpc = IF calls[c].data.data.isNull
                                                 THEN "done" ELSE "destroy"]
          /\ UNCHANGED Type
       \/ /\ calls[c].op = "createLine"
          /\ ~(calls[c].data.hasRoutePoints /\ minTwo(calls[c].data.routePoints))
          /\ calls' = [calls EXCEPT ![c].pc = "failed", ![c].result = "error"]
          /\ UNCHANGED <<Line, Type, nextId>>
       \/ /\ calls[c].op = "createType"
          /\ checkUniqueFieldName(calls[c].fields, 1, {})
          /\ Type' = Type \cup { [id |-> nextId, padId |-> 1, fields |-> calls[c].fields] }
          /\ nextId' = nextId + 1
          /\ calls' = [calls EXCEPT ![c].pc = "saved", ![c].id = nextId, ![c].dpc = "done"]
          /\ UNCHANGED Line
       \/ /\ calls[c].op = "createType"
          /\ ~checkUniqueFieldName(calls[c].fields, 1, {})
          /\ calls' = [calls EXCEPT ![c].pc = "failed", ![c].result = "error"]
          /\ UNCHANGED <<Line, Type, nextId>>
    /\ UNCHANGED <<LinePoint, LineData, emitted, q, syncVars>>
    /\ UNCHANGED <<History, Pad, View>>

\* updateLine(lineId, data): _updatePadObjectWithData calls _updatePadObject
\* and, as data.data is given or not, _setObjectData or _getObjectData,
\* before either has completed.
updateLine(c, lineId, data) ==
    /\ calls[c].op = "none"
    /\ calls' = [calls EXCEPT ![c] =
                   [NoOldCall EXCEPT !.op = "updateLine", !.pc = "update", !.id = lineId, !.data = data,
                                     !.dpc = IF data.data.isNull THEN "getData" ELSE "destroy"]]
    /\ UNCHANGED <<Line, LinePoint, LineData, Type, nextId, emitted, q, syncVars>>
    /\ UNCHANGED <<History, Pad, View>>

\* updateType(typeId, data)
updateType(c, typeId, fields) ==
    /\ calls[c].op = "none"
    /\ calls' = [calls EXCEPT ![c] =
                   [NoOldCall EXCEPT !.op = "updateType", !.pc = "update", !.id = typeId,
                                     !.fields = fields, !.dpc = "done"]]
    /\ UNCHANGED <<Line, LinePoint, LineData, Type, nextId, emitted, q, syncVars>>
    /\ UNCHANGED <<History, Pad, View>>

\* Model.update of _updatePadObject: the given attributes are validated, then
\* written.  A rejection rejects the Promise.all of the call at once.
updatePadObject_update(c) ==
    /\ calls[c].pc = "update"
    /\ \/ /\ calls[c].op = "updateLine"
          /\ calls[c].data.hasRoutePoints => minTwo(calls[c].data.routePoints)
          /\ Line' = { IF l.id = calls[c].id /\ calls[c].data.hasRoutePoints
                         THEN [l EXCEPT !.routePoints = calls[c].data.routePoints]
                         ELSE l : l \in Line }
          /\ calls' = [calls EXCEPT ![c].pc = "saved"]
          /\ UNCHANGED Type
       \/ /\ calls[c].op = "updateLine"
          /\ calls[c].data.hasRoutePoints /\ ~minTwo(calls[c].data.routePoints)
          /\ calls' = [calls EXCEPT ![c].pc = "failed", ![c].result = "error"]
          /\ UNCHANGED <<Line, Type>>
       \/ /\ calls[c].op = "updateType"
          /\ checkUniqueFieldName(calls[c].fields, 1, {})
          /\ Type' = { IF t.id = calls[c].id THEN [t EXCEPT !.fields = calls[c].fields]
                       ELSE t : t \in Type }
          /\ calls' = [calls EXCEPT ![c].pc = "saved"]
          /\ UNCHANGED Line
       \/ /\ calls[c].op = "updateType"
          /\ ~checkUniqueFieldName(calls[c].fields, 1, {})
          /\ calls' = [calls EXCEPT ![c].pc = "failed", ![c].result = "error"]
          /\ UNCHANGED <<Line, Type>>
    /\ UNCHANGED <<LinePoint, LineData, nextId, emitted, q, syncVars>>
    /\ UNCHANGED <<History, Pad, View>>

\* model.destroy of _setObjectData: the data rows of the object go.
setObjectData_destroy(c) ==
    /\ calls[c].dpc = "destroy"
    /\ LineData' = { d \in LineData : d.lineId # calls[c].id }
    /\ calls' = [calls EXCEPT ![c].dpc = "bulkCreate"]
    /\ UNCHANGED <<Line, LinePoint, Type, nextId, emitted, q, syncVars>>
    /\ UNCHANGED <<History, Pad, View>>

\* model.bulkCreate of _setObjectData: the rows of data.data are inserted.
setObjectData_bulkCreate(c) ==
    /\ calls[c].dpc = "bulkCreate"
    /\ LineData' = LineData \cup dataToArr(calls[c].data.data.obj, calls[c].id)
    /\ calls' = [calls EXCEPT ![c].dpc = "done"]
    /\ UNCHANGED <<Line, LinePoint, Type, nextId, emitted, q, syncVars>>
    /\ UNCHANGED <<History, Pad, View>>

\* findAll of _getObjectData
getObjectData(c) ==
    /\ calls[c].dpc = "getData"
    /\ calls' = [calls EXCEPT ![c].dpc = "done"]
    /\ UNCHANGED <<Line, LinePoint, LineData, Type, nextId, emitted, q, syncVars>>
    /\ UNCHANGED <<History, Pad, View>>

\* Both branches have resolved: the call returns the object, and for a line
\* database.js notifies the pad's listeners.
resolveCall(c) ==
    /\ calls[c].pc = "saved" /\ calls[c].dpc = "done"
    /\ calls' = [calls EXCEPT ![c].pc = "done", ![c].result = "ok"]
    /\ emitted' = IF calls[c].op \in {"createLine", "updateLine"}
                    THEN Append(emitted, [type |-> "line", padId |-> 1, id |-> calls[c].id, call |-> c])
                    ELSE emitted
    /\ UNCHANGED <<Line, LinePoint, LineData, Type, nextId, q, syncVars>>
    /\ UNCHANGED <<History, Pad, View>>

NextData ==
    \/ \E c \in Calls, data \in LineInputs : createLine(c, data)
    \/ \E c \in Calls, fields \in FieldInputs : createType(c, fields)
    \/ \E c \in Calls : createPadObject_save(c)
    \/ \E c \in Calls, data \in LineInputs : updateLine(c, 1, data)
    \/ \E c \in Calls, fields \in FieldInputs : updateType(c, 1, fields)
    \/ \E c \in Calls : updatePadObject_update(c)
    \/ \E c \in Calls : setObjectData_destroy(c)
    \/ \E c \in Calls : setObjectData_bulkCreate(c)
    \/ \E c \in Calls : getObjectData(c)
    \/ \E c \in Calls : resolveCall(c)

SpecData == InitData /\ [][NextData]_vars

\* The calls on types alone.
NextFields ==
    \/ \E c \in Calls, fields \in FieldInputs : createType(c, fields)
    \/ \E c \in Calls : createPadObject_save(c)
    \/ \E c \in Calls, fields \in FieldInputs : updateType(c, 1, fields)
    \/ \E c \in Calls : updatePadObject_update(c)
    \/ \E c \in Calls : resolveCall(c)

SpecFields == InitData /\ [][NextFields]_vars

\* C19: a line with fewer than two route points (or routePoints not an
\* array) and a type with a duplicate or empty field name are rejected before
\* anything is persisted or broadcast: once the only call made has failed,
\* the lines, types, data rows and track points are as they were and no event
\* was emitted.
C19_ValidationFirst ==
    \A c \in Calls :
        (/\ calls[c].result = "error"
         /\ \A d \in Calls \ {c} : calls[d].op = "none")
        => /\ Line = LineOld0
           /\ Type = Type0
           /\ LineData = LineData0
           /\ LinePoint = {}
           /\ emitted = <<>>

\* C26: the field names of every stored type are pairwise distinct and
\* non-empty after trimming, and a createType or updateType that would break
\* this fails and leaves the stored types as they were.
C26_FieldNamesUnique ==
    /\ \A t \in Type :
         /\ \A i \in DOMAIN t.fields : t.fields[i] \notin {"", " "}
         /\ \A i \in DOMAIN t.fields, j \in DOMAIN t.fields : i # j => t.fields[i] # t.fields[j]
    /\ \A c \in Calls :
         (/\ calls[c].op \in {"createType", "updateType"}
          /\ calls[c].result = "error"
          /\ \A d \in Calls \ {c} : calls[d].op = "none")
         => Type = Type0

\* An updateType naming a field twice has failed and a createType with two
\* distinct names has stored its type.
C26_Witness ==
    \E c \in Calls, d \in Calls :
        /\ calls[c].op = "updateType" /\ calls[c].fields = <<"a", "a">> /\ calls[c].result = "error"
        /\ calls[d].op = "createType" /\ calls[d].fields = <<"a", "b">> /\ calls[d].result = "ok"
        /\ \E t \in Type : t.id = calls[d].id /\ t.fields = <<"a", "b">>
        /\ \E t \in Type : t.id = 1 /\ t.fields = <<"a">>

(***************************************************************************)
(* The viewport of a connection: Client.updateBbox, the connect and        *)
(* disconnect handlers of the client, and the server's answer to an        *)
(* updateBbox request.  Requests travel in order on channel; sockets holds  *)
(* the viewport the server has for the connection.                          *)
(***************************************************************************)

\* updateBbox calls the application makes.
NumUpdates == 2

\* No viewport was set.
NoBbox == [top |-> 0, bottom |-> 0, left |-> 0, right |-> 0, zoom |-> 0]

\* Well-formed viewports; the second wraps around the antimeridian.
GoodBboxes ==
    { [top |-> 2, bottom |-> 1, left |-> -170, right |-> 170, zoom |-> 1],
      [top |-> 2, bottom |-> 1, left |-> 170, right |-> -170, zoom |-> 1],
      [top |-> 1, bottom |-> 1, left |-> -180, right |-> 180, zoom |-> 1] }

\* Viewports with top below bottom, left out of range, right out of range.
BadBboxes ==
    { [top |-> 1, bottom |-> 2, left |-> -170, right |-> 170, zoom |-> 1],
      [top |-> 2, bottom |-> 1, left |-> -181, right |-> 170, zoom |-> 1],
      [top |-> 2, bottom |-> 1, left |-> -170, right |-> 181, zoom |-> 1] }

\* The viewport is malformed.
malformed(bbox) ==
    \/ bbox.left < -180 \/ bbox.left > 180
    \/ bbox.right < -180 \/ bbox.right > 180
    \/ bbox.top < bbox.bottom

\* The record of the viewport requests: the viewport last applied with
\* success, and how the request answered last ended.
NoViewport == [kind |-> "viewport", applied |-> NoBbox, outcome |-> "none", resent |-> FALSE]

InitViewport ==
    /\ client = [bbox |-> NoBbox, disconnected |-> TRUE]
    /\ sockets = [bbox |-> NoBbox]
    /\ channel = <<>>
    /\ counts = 0
    /\ q = NoViewport
    /\ Marker = {} /\ markerSeq = 1
    /\ Line = {} /\ LinePoint = {}
    /\ nextId = 1 /\ calls = <<>> /\ emitted = <<>>
    /\ DataIdle

\* updateBbox(bbox) up to the await: this.bbox is set and the request sent.
updateBbox(cl, bbox) == [cl EXCEPT !.bbox = bbox]

\* The application calls updateBbox.
Client_updateBbox(bbox) ==
    /\ ~client.disconnected
    /\ counts < NumUpdates
    /\ counts' = counts + 1
    /\ client' = updateBbox(client, bbox)
    /\ channel' = Append(channel, [bbox |-> bbox, resent |-> FALSE])
    /\ UNCHANGED <<sockets, q, Marker, markerSeq, Line, LinePoint, callVars, dataVars>>

\* The server answers the oldest request: a malformed viewport fails and the
\* viewport of the connection stays; any other is applied.
Server_updateBbox ==
    /\ channel # <<>>
    /\ LET req == Head(channel)
       IN IF malformed(req.bbox)
            THEN /\ q' = [q EXCEPT !.outcome = "failed", !.resent = req.resent]
                 /\ UNCHANGED sockets
            ELSE /\ sockets' = [sockets EXCEPT !.bbox = req.bbox]
                 /\ q' = [q EXCEPT !.applied = req.bbox, !.outcome = "ok", !.resent = req.resent]
    /\ channel' = Tail(channel)
    /\ UNCHANGED <<client, counts, Marker, markerSeq, Line, LinePoint, callVars, dataVars>>

\* The connection breaks: the disconnect handler runs, the requests in
\* flight are lost and the server forgets the connection.
Client_disconnect ==
    /\ ~client.disconnected
    /\ client' = [client EXCEPT !.disconnected = TRUE]
    /\ channel' = <<>>
    /\ sockets' = [sockets EXCEPT !.bbox = NoBbox]
    /\ UNCHANGED <<q, counts, Marker, markerSeq, Line, LinePoint, callVars, dataVars>>

\* The connect handler: with a stored bbox, updateBbox(this.bbox) again.
Client_connect ==
    /\ client.disconnected
    /\ IF client.bbox # NoBbox
         THEN /\ client' = [updateBbox(client, client.bbox) EXCEPT !.disconnected = FALSE]
              /\ channel' = Append(channel, [bbox |-> client.bbox, resent |-> TRUE])
         ELSE /\ client' = [client EXCEPT !.disconnected = FALSE]
              /\ UNCHANGED channel
    /\ UNCHANGED <<sockets, q, counts, Marker, markerSeq, Line, LinePoint, callVars, dataVars>>

NextViewport ==
    \/ \E bbox \in GoodBboxes \cup BadBboxes : Client_updateBbox(bbox)
    \/ Server_updateBbox
    \/ Client_disconnect
    \/ Client_connect

SpecViewport == InitViewport /\ [][NextViewport]_vars

\* C20: an updateBbox with a malformed bbox fails and the previous viewport
\* is retained: once the failed request is answered and no other is in
\* flight, the bbox the client has stored, which it sends again on
\* reconnect, is the bbox last applied with success.
C20_BboxRetained ==
    (q.outcome = "failed" /\ channel = <<>>) => client.bbox = q.applied

(***************************************************************************)
(* Mutations and the history log: createMarker, updateMarker and           *)
(* deleteMarker of database.js.  Each calls the backend and, in the        *)
(* callback, notifies the pad's listeners and returns; the entry of the    *)
(* history log is appended by the caller once the call has returned.       *)
(***************************************************************************)

\* Colours a marker is given.
MarkerColours == {"ff0000", "00ff00"}

\* The pad holds marker 1.
MarkerH0 == { [id |-> 1, colour |-> "ff0000"] }

NoMutation == [op |-> "none", pc |-> "idle", id |-> 0, colour |-> "", result |-> "pending"]

InitHistory ==
    /\ Marker = MarkerH0 /\ markerSeq = 2
    /\ calls = [c \in Calls |-> NoMutation]
    /\ emitted = <<>>
    /\ History = <<>>
    /\ q = NoQuery
    /\ sockets = <<>> /\ channel = <<>> /\ client = <<>> /\ counts = <<>>
    /\ Line = {} /\ LinePoint = {} /\ nextId = 1
    /\ LineData = {} /\ Type = {} /\ Pad = {} /\ View = {}

\* backend.createMarker: the row is inserted, or the backend reports an error
\* and the callback returns it.
createMarker_backend(c, colour) ==
    /\ calls[c].op = "none"
    /\ \/ /\ Marker' = Marker \cup { [id |-> markerSeq, colour |-> colour] }
          /\ markerSeq' = markerSeq + 1
          /\ calls' = [calls EXCEPT ![c] = [NoMutation EXCEPT !.op = "createMarker", !.pc = "persisted",
                                                              !.id = markerSeq, !.colour = colour]]
       \/ /\ calls' = [calls EXCEPT ![c] = [NoMutation EXCEPT !.op = "createMarker", !.pc = "done",
                                                              !.colour = colour, !.result = "error"]]
          /\ UNCHANGED <<Marker, markerSeq>>
    /\ UNCHANGED <<emitted, History, q, sockets, channel, client, counts,
                   Line, LinePoint, nextId, LineData, Type, Pad, View>>

\* backend.updateMarker
updateMarker_backend(c, markerId, colour) ==
    /\ calls[c].op = "none"
    /\ \/ /\ \E m \in Marker : m.id = markerId
          /\ Marker' = { IF m.id = markerId THEN [m EXCEPT !.colour = colour] ELSE m : m \in Marker }
          /\ calls' = [calls EXCEPT ![c] = [NoMutation EXCEPT !.op = "updateMarker", !.pc = "persisted",
                                                              !.id = markerId, !.colour = colour]]
       \/ /\ calls' = [calls EXCEPT ![c] = [NoMutation EXCEPT !.op = "updateMarker", !.pc = "done",
                                                              !.id = markerId, !.colour = colour,
                                                              !.result = "error"]]
          /\ UNCHANGED Marker
    /\ UNCHANGED <<markerSeq, emitted, History, q, sockets, channel, client, counts,
                   Line, LinePoint, nextId, LineData, Type, Pad, View>>

\* backend.deleteMarker
deleteMarker_backend(c, markerId) ==
    /\ calls[c].op = "none"
    /\ \/ /\ \E m \in Marker : m.id = markerId
          /\ Marker' = { m \in Marker : m.id # markerId }
          /\ calls' = [calls EXCEPT ![c] = [NoMutation EXCEPT !.op = "deleteMarker", !.pc = "persisted",
                                                              !.id = markerId]]
       \/ /\ calls' = [calls EXCEPT ![c] = [NoMutation EXCEPT !.op = "deleteMarker", !.pc = "done",
                                                              !.id = markerId, !.result = "error"]]
          /\ UNCHANGED Marker
    /\ UNCHANGED <<markerSeq, emitted, History, q, sockets, channel, client, counts,
                   Line, LinePoint, nextId, LineData, Type, Pad, View>>

\* The callback of the backend call: listeners.notifyPadListeners, then
\* callback(null, data).
mutation_notify(c) ==
    /\ calls[c].pc = "persisted"
    /\ emitted' = Append(emitted, [type |-> IF calls[c].op = "deleteMarker" THEN "deleteMarker" ELSE "marker",
                                   padId |-> 1, id |-> calls[c].id, call |-> c])
    /\ calls' = [calls EXCEPT ![c].pc = "returned"]
    /\ UNCHANGED <<Marker, markerSeq, History, q, sockets, channel, client, counts,
                   Line, LinePoint, nextId, LineData, Type, Pad, View>>

\* The history log's append for the mutation that returned: the entry is
\* appended, or the append fails.
history_append(c) ==
    /\ calls[c].pc = "returned"
    /\ \/ /\ History' = Append(History, [padId |-> 1, type |-> "Marker", objectId |-> calls[c].id,
                                         action |-> calls[c].op, call |-> c])
          /\ calls' = [calls EXCEPT ![c].pc = "done", ![c].result = "ok"]
       \/ /\ calls' = [calls EXCEPT ![c].pc = "done", ![c].result = "appendFailed"]
          /\ UNCHANGED History
    /\ UNCHANGED <<Marker, markerSeq, emitted, q, sockets, channel, client, counts,
                   Line, LinePoint, nextId, LineData, Type, Pad, View>>

NextHistory ==
    \/ \E c \in Calls, colour \in MarkerColours : createMarker_backend(c, colour)
    \/ \E c \in Calls, id \in {1, 2}, colour \in MarkerColours : updateMarker_backend(c, id, colour)
    \/ \E c \in Calls, id \in {1, 2} : deleteMarker_backend(c, id)
    \/ \E c \in Calls : mutation_notify(c)
    \/ \E c \in Calls : history_append(c)

SpecHistory == InitHistory /\ [][NextHistory]_vars

TypeNames == {"a", "b"}

\* The objects with the ids 1, 2 of rows, in the order of their ids.
RowsById(rows) ==
    LET ids == SelectSeq(<<1, 2>>, LAMBDA id : \E r \in rows : r.id = id)
    IN [i \in 1..Len(ids) |-> CHOOSE r \in rows : r.id = ids[i]]

\* _receiveMultiple for the events of one name, from the i-th on.
RECURSIVE receiveEvents(_, _, _, _)
receiveEvents(cl, name, events, i) ==
    IF i > Len(events) THEN cl
    ELSE receiveEvents(handle(name, cl, events[i]), name, events, i + 1)

\* The client before its first connection: a pad id and a bbox are set.
ClientR0 == [Client0 EXCEPT !.padId = "p1"] @@ [bbox |-> TRUE]

NoSubscription == [padId |-> FALSE, bbox |-> FALSE, requests |-> <<>>]

InitReconnect ==
    /\ client = ClientR0
    /\ sockets = NoSubscription
    /\ channel = <<>>
    /\ Type = { [id |-> 1, name |-> "a"] }
    /\ Marker = { [id |-> 1, colour |-> "ff0000"] }
    /\ counts = 0
    /\ q = [kind |-> "reconnect", wasConnected |-> FALSE, reconnected |-> FALSE]
    /\ markerSeq = 1
    /\ Line = {} /\ LinePoint = {} /\ nextId = 1 /\ calls = <<>> /\ emitted = <<>>
    /\ LineData = {} /\ History = <<>> /\ Pad = {} /\ View = {}

\* What the actions of this specification leave alone.
reconnectIdle == <<markerSeq, Line, LinePoint, callVars, LineData, History, Pad, View>>

\* The event goes to the connection if it is subscribed.
Push(subscribed, name, data) ==
    IF subscribed THEN Append(channel, [kind |-> "event", name |-> name, data |-> <<data>>])
    ELSE channel

\* Another connection creates or updates a type.
Server_type(id, name) ==
    /\ counts < NumMutations
    /\ counts' = counts + 1
    /\ Type' = { t \in Type : t.id # id } \cup { [id |-> id, name |-> name] }
    /\ channel' = Push(sockets.padId, "type", [id |-> id, name |-> name])
    /\ UNCHANGED <<Marker, client, sockets, q, reconnectIdle>>

\* Another connection deletes a type.
Server_deleteType(id) ==
    /\ counts < NumMutations
    /\ \E t \in Type : t.id = id
    /\ counts' = counts + 1
    /\ Type' = { t \in Type : t.id # id }
    /\ channel' = Push(sockets.padId, "deleteType", [id |-> id])
    /\ UNCHANGED <<Marker, client, sockets, q, reconnectIdle>>

\* Another connection creates or updates a marker.
Server_marker(id, colour) ==
    /\ counts < NumMutations
    /\ counts' = counts + 1
    /\ Marker' = { m \in Marker : m.id # id } \cup { [id |-> id, colour |-> colour] }
    /\ channel' = Push(sockets.bbox, "marker", [id |-> id, colour |-> colour])
    /\ UNCHANGED <<Type, client, sockets, q, reconnectIdle>>

\* Another connection deletes a marker.
Server_deleteMarker(id) ==
    /\ counts < NumMutations
    /\ \E m \in Marker : m.id = id
    /\ counts' = counts + 1
    /\ Marker' = { m \in Marker : m.id # id }
    /\ channel' = Push(sockets.bbox, "deleteMarker", [id |-> id])
    /\ UNCHANGED <<Type, client, sockets, q, reconnectIdle>>

\* The disconnect handler; the server drops the connection and what was
\* on its way.
Reconnect_disconnect ==
    /\ ~client.disconnected
    /\ client' = handle("disconnect", client, <<>>)
    /\ sockets' = NoSubscription
    /\ channel' = <<>>
    /\ UNCHANGED <<Type, Marker, counts, q, reconnectIdle>>

\* The connect handler: _setPadId(this.padId), then updateBbox(this.bbox).
Reconnect_connect ==
    /\ client.disconnected
    /\ client' = handle("connect", client, <<>>)
    /\ sockets' = [sockets EXCEPT !.requests = <<"setPadId", "updateBbox">>]
    /\ q' = [q EXCEPT !.wasConnected = TRUE, !.reconnected = q.wasConnected]
    /\ UNCHANGED <<Type, Marker, channel, counts, reconnectIdle>>

\* The server answers the oldest request of the connection: setPadId
\* subscribes it to the pad and returns the types, updateBbox sets its
\* viewport and returns the markers.
Server_answer ==
    /\ sockets.requests # <<>>
    /\ LET request == Head(sockets.requests)
       IN IF request = "setPadId"
            THEN /\ sockets' = [sockets EXCEPT !.padId = TRUE, !.requests = Tail(@)]
                 /\ channel' = Append(channel, [kind |-> "reply", name |-> "type", data |-> RowsById(Type)])
            ELSE /\ sockets' = [sockets EXCEPT !.bbox = TRUE, !.requests = Tail(@)]
                 /\ channel' = Append(channel, [kind |-> "reply", name |-> "marker", data |-> RowsById(Marker)])
    /\ UNCHANGED <<Type, Marker, client, counts, q, reconnectIdle>>

\* The client takes the oldest message: an event goes to its handler, the
\* answer of a request to _receiveMultiple.
Reconnect_receive ==
    /\ channel # <<>>
    /\ client' = receiveEvents(client, Head(channel).name, Head(channel).data, 1)
    /\ channel' = Tail(channel)
    /\ UNCHANGED <<Type, Marker, sockets, counts, q, reconnectIdle>>

NextReconnect ==
    \/ \E id \in ClientIds, name \in TypeNames : Server_type(id, name)
    \/ \E id \in ClientIds : Server_deleteType(id)
    \/ \E id \in ClientIds, colour \in MarkerColours : Server_marker(id, colour)
    \/ \E id \in ClientIds : Server_deleteMarker(id)
    \/ Reconnect_disconnect
    \/ Reconnect_connect
    \/ Server_answer
    \/ Reconnect_receive

SpecReconnect == InitReconnect /\ [][NextReconnect]_vars

\* The reconnected client's calls have completed and nothing is on its way.
Refilled ==
    /\ q.reconnected /\ ~client.disconnected
    /\ sockets.requests = <<>> /\ channel = <<>>

\* C22: after a disconnect and a reconnect, once setPadId and updateBbox
\* have completed, the client holds no marker or type that was deleted on
\* the server while it was away, and holds every object of the fresh fill
\* in its current state.
C22_FreshAfterReconnect ==
    Refilled =>
        /\ \A id \in DOMAIN client.types : \E t \in Type : t.id = id
        /\ \A id \in DOMAIN client.markers : \E m \in Marker : m.id = id
        /\ \A t \in Type : t.id \in DOMAIN client.types /\ client.types[t.id] = t
        /\ \A m \in Marker : m.id \in DOMAIN client.markers /\ client.markers[m.id] = m

(***************************************************************************)
(* Storing the points of a line: setLinePoints of the older backend and    *)
(* _setLinePoints, read back with getAllLinePoints.  One call at a time.   *)
(* Coordinates are counted in tenths of a millionth of a degree: the older *)
(* LinePoint table keeps lat and lon in FLOAT(9, 6) columns, six decimals.  *)
(***************************************************************************)

\* Points a call is given: the last coordinate of each pair has a seventh
\* decimal.
GivenLats == {10, 20, 14}
GivenPoints == [idx : {0, 1, 2}, lat : GivenLats, lon : {0}, zoom : ZoomTags]

\* The point lists given: up to MaxBatch points, each idx once, in any order.
GivenLists ==
    { P \in UNION { [1..n -> GivenPoints] : n \in 0..MaxBatch } :
        \A i \in DOMAIN P, j \in DOMAIN P : i # j => P[i].idx # P[j].idx }

\* A coordinate as a FLOAT(9, 6) column keeps it: rounded to six decimals.
floatColumn(v) == ((v + 5) \div 10) * 10

\* The row bulkCreate inserts for a point: utils.extend({ }, trackPoints[i],
\* { lineId: lineId }) in the columns of the older LinePoint table.
ColumnRow(lineId, p) ==
    [lineId |-> lineId, idx |-> p.idx, lat |-> floatColumn(p.lat), lon |-> floatColumn(p.lon),
     zoom |-> p.zoom]

\* The rows a call of operation op inserts.
CreatedRows(op, lineId, P) ==
    IF op = "setLinePoints" THEN { ColumnRow(lineId, P[i]) : i \in DOMAIN P }
    ELSE TrackRows(lineId, P)

\* Mutant of destroyLinePoints: no row is deleted.
destroyLinePoints_none(table, lineId) == table

\* LinePoint.destroy({ where: { lineId: lineId } })
destroyLinePoints(table, lineId) == { r \in table : r.lineId # lineId }

\* Line 1 holds up to two earlier points, line 2 one point.
EarlierTables ==
    { rows \cup { [lineId |-> 2, idx |-> 0, lat |-> 10, lon |-> 0, zoom |-> 1] } :
        rows \in SUBSET { [lineId |-> 1, idx |-> 0, lat |-> 20, lon |-> 0, zoom |-> 10],
                          [lineId |-> 1, idx |-> 5, lat |-> 10, lon |-> 0, zoom |-> 1] } }

NoStore == [op |-> "none", pc |-> "idle", line |-> 0, points |-> <<>>]

InitStore ==
    /\ Line = { [id |-> 1, padId |-> 1], [id |-> 2, padId |-> 1] }
    /\ LinePoint \in EarlierTables
    /\ calls = <<NoStore>>
    /\ q = NoQuery
    /\ nextId = 3 /\ emitted = <<>>
    /\ SyncIdle
    /\ DataIdle

\* setLinePoints(lineId, trackPoints) or _setLinePoints(padId, lineId,
\* trackPoints, true) is called.
Store_call(op, lineId, P) ==
    /\ calls[1].op = "none"
    /\ calls' = <<[op |-> op, pc |-> "destroy", line |-> lineId, points |-> P]>>
    /\ UNCHANGED <<Line, LinePoint, nextId, emitted, q, syncVars, dataVars>>

\* The destroy of the call.
Store_destroy ==
    /\ calls[1].pc = "destroy"
    /\ LinePoint' = destroyLinePoints(LinePoint, calls[1].line)
    /\ calls' = <<[calls[1] EXCEPT !.pc = "create"]>>
    /\ UNCHANGED <<Line, nextId, emitted, q, syncVars, dataVars>>

\* bulkCreate, or _bulkCreateInBatches: the call completes.
Store_create ==
    /\ calls[1].pc = "create"
    /\ LinePoint' = LinePoint \cup CreatedRows(calls[1].op, calls[1].line, calls[1].points)
    /\ calls' = <<[calls[1] EXCEPT !.pc = "done"]>>
    /\ UNCHANGED <<Line, nextId, emitted, q, syncVars, dataVars>>

\* getAllLinePoints of the line, after the call.
Store_read ==
    /\ calls[1].pc = "done"
    /\ q = NoQuery
    /\ q' = [kind |-> "stored", res |-> getAllLinePoints(LinePoint, calls[1].line),
             other |-> getAllLinePoints(LinePoint, 3 - calls[1].line), before |-> LinePoint]
    /\ UNCHANGED <<Line, LinePoint, callVars, syncVars, dataVars>>

NextStore ==
    \/ \E op \in {"setLinePoints", "_setLinePoints"}, lineId \in {1, 2}, P \in GivenLists :
          Store_call(op, lineId, P)
    \/ Store_destroy
    \/ Store_create
    \/ Store_read

SpecStore == InitStore /\ [][NextStore]_vars

\* The points read are as many as given, in ascending idx.
ReadInOrder ==
    /\ Len(q.res) = Len(calls[1].points)
    /\ \A i \in DOMAIN q.res, j \in DOMAIN q.res : i < j => q.res[i].idx < q.res[j].idx

TypeIds == {1, 2}

\* isTypeUsed(typeId)
isTypeUsed(markers, lines, typeId) ==
    (\E m \in markers : m.typeId = typeId) \/ (\E l \in lines : l.typeId = typeId)

\* Mutant of restricted: the database deletes a row whatever references it.
restricted_never(markers, lines, typeId) == FALSE

\* ON DELETE RESTRICT: the delete of the type's row is refused.
restricted(markers, lines, typeId) ==
    \E r \in markers \cup lines : r.typeId = typeId

\* Type 1 is the type of marker 1 and line 1; type 2 is not in use.
TypesT0 == { [id |-> 1, padId |-> 1, fields |-> <<"a">>], [id |-> 2, padId |-> 1, fields |-> <<"a">>] }

NoTypeCall == [op |-> "none", pc |-> "idle", id |-> 0, typeId |-> 0, found |-> FALSE, result |-> "pending"]

InitTypes ==
    /\ Type = TypesT0
    /\ Marker = { [id |-> 1, typeId |-> 1] }
    /\ Line = { [id |-> 1, typeId |-> 1] }
    /\ calls = [c \in Calls |-> NoTypeCall]
    /\ nextId = 2
    /\ q = NoQuery
    /\ LinePoint = {} /\ emitted = <<>> /\ markerSeq = 1
    /\ sockets = <<>> /\ channel = <<>> /\ client = <<>> /\ counts = <<>>
    /\ LineData = {} /\ History = <<>> /\ Pad = {} /\ View = {}

typesIdle == <<LinePoint, emitted, markerSeq, sockets, channel, client, counts, LineData, History, Pad, View>>

\* createMarker(padId, data) or createLine(padId, data): the row references
\* its type, and is refused if the type does not exist.
T_createObject(c, table, typeId) ==
    /\ calls[c].op = "none"
    /\ IF \E t \in Type : t.id = typeId
         THEN /\ Marker' = IF table = "Marker" THEN Marker \cup { [id |-> nextId, typeId |-> typeId] } ELSE Marker
              /\ Line' = IF table = "Line" THEN Line \cup { [id |-> nextId, typeId |-> typeId] } ELSE Line
              /\ nextId' = nextId + 1
              /\ calls' = [calls EXCEPT ![c] = [NoTypeCall EXCEPT !.op = "create" \o table, !.pc = "done",
                                                                  !.id = nextId, !.typeId = typeId,
                                                                  !.result = "ok"]]
         ELSE /\ calls' = [calls EXCEPT ![c] = [NoTypeCall EXCEPT !.op = "create" \o table, !.pc = "done",
                                                                  !.typeId = typeId, !.result = "error"]]
              /\ UNCHANGED <<Marker, Line, nextId>>
    /\ UNCHANGED <<Type, q, typesIdle>>

\* updateMarker(markerId, data) or updateLine(lineId, data) with a typeId.
T_updateObject(c, table, id, typeId) ==
    /\ calls[c].op = "none"
    /\ IF \E t \in Type : t.id = typeId
         THEN /\ Marker' = IF table = "Marker"
                             THEN { IF m.id = id THEN [m EXCEPT !.typeId = typeId] ELSE m : m \in Marker }
                             ELSE Marker
              /\ Line' = IF table = "Line"
                           THEN { IF l.id = id THEN [l EXCEPT !.typeId = typeId] ELSE l : l \in Line }
                           ELSE Line
              /\ calls' = [calls EXCEPT ![c] = [NoTypeCall EXCEPT !.op = "update" \o table, !.pc = "done",
                                                                  !.id = id, !.typeId = typeId,
                                                                  !.result = "ok"]]
         ELSE /\ calls' = [calls EXCEPT ![c] = [NoTypeCall EXCEPT !.op = "update" \o table, !.pc = "done",
                                                                  !.id = id, !.typeId = typeId,
                                                                  !.result = "error"]]
              /\ UNCHANGED <<Marker, Line>>
    /\ UNCHANGED <<Type, nextId, q, typesIdle>>

\* deleteMarker(markerId) or deleteLine(lineId)
T_deleteObject(c, table, id) ==
    /\ calls[c].op = "none"
    /\ Marker' = IF table = "Marker" THEN { m \in Marker : m.id # id } ELSE Marker
    /\ Line' = IF table = "Line" THEN { l \in Line : l.id # id } ELSE Line
    /\ calls' = [calls EXCEPT ![c] = [NoTypeCall EXCEPT !.op = "delete" \o table, !.pc = "done",
                                                        !.id = id, !.result = "ok"]]
    /\ UNCHANGED <<Type, nextId, q, typesIdle>>

\* createType(padId, data)
T_createType(c) ==
    /\ calls[c].op = "none"
    /\ Type' = Type \cup { [id |-> nextId, padId |-> 1, fields |-> <<"a">>] }
    /\ nextId' = nextId + 1
    /\ calls' = [calls EXCEPT ![c] = [NoTypeCall EXCEPT !.op = "createType", !.pc = "done",
                                                        !.typeId = nextId, !.result = "ok"]]
    /\ UNCHANGED <<Marker, Line, q, typesIdle>>

\* deleteType(typeId): findById of _deletePadObject.
deleteType_findById(c, typeId) ==
    /\ calls[c].op = "none"
    /\ calls' = [calls EXCEPT ![c] = [NoTypeCall EXCEPT !.op = "deleteType", !.pc = "destroy",
                                                        !.typeId = typeId,
                                                        !.found = \E t \in Type : t.id = typeId]]
    /\ UNCHANGED <<Type, Marker, Line, nextId, q, typesIdle>>

\* deleteType(typeId): obj.destroy() of _deletePadObject.  Without a row the
\* call throws; the database refuses the delete of a row that is referenced.
deleteType_destroy(c) ==
    /\ calls[c].pc = "destroy"
    /\ LET typeId == calls[c].typeId
           ok == calls[c].found /\ ~restricted(Marker, Line, typeId)
       IN /\ Type' = IF ok THEN { t \in Type : t.id # typeId } ELSE Type
          /\ calls' = [calls EXCEPT ![c].pc = "done", ![c].result = IF ok THEN "ok" ELSE "error"]
          /\ q' = [kind |-> "deleteType", typeId |-> typeId,
                   used |-> isTypeUsed(Marker, Line, typeId),
                   result |-> IF ok THEN "ok" ELSE "error",
                   before |-> Type, after |-> Type']
    /\ UNCHANGED <<Marker, Line, nextId, typesIdle>>

NextTypes ==
    \/ \E c \in Calls, table \in {"Marker", "Line"}, typeId \in TypeIds : T_createObject(c, table, typeId)
    \/ \E c \in Calls, table \in {"Marker", "Line"}, typeId \in TypeIds : T_updateObject(c, table, 1, typeId)
    \/ \E c \in Calls, table \in {"Marker", "Line"} : T_deleteObject(c, table, 1)
    \/ \E c \in Calls : T_createType(c)
    \/ \E c \in Calls, typeId \in TypeIds : deleteType_findById(c, typeId)
    \/ \E c \in Calls : deleteType_destroy(c)

SpecTypes == InitTypes /\ [][NextTypes]_vars

\* C25: a type referenced by a marker or line cannot be deleted: deleteType
\* on it fails and leaves the types as they were, and every marker's and
\* line's typeId refers to a type that exists.
C25_TypeInUseKept ==
    /\ \A r \in Marker \cup Line : \E t \in Type : t.id = r.typeId
    /\ (q.kind = "deleteType" /\ q.used) => (q.result = "error" /\ q.after = q.before)

\* A deleteType found its type unused, a marker of that type was created,
\* and the destroy was refused.
C25_Witness ==
    /\ q.kind = "deleteType" /\ q.used /\ q.typeId = 2 /\ q.result = "error"
    /\ \E m \in Marker : m.typeId = 2
    /\ \E t \in Type : t.id = 2

(***************************************************************************)
(* The tokens of pads: createPad and updatePadData on the Pad table, whose *)
(* id is the primary key and whose id and writeId must match /^.+$/.  The  *)
(* caller of either asks padIdExists for the tokens it is about to store   *)
(* and refuses equal ones, then makes the call.                            *)
(***************************************************************************)

Tokens == {"", "x", "y", "z"}

\* padIdExists(padId)
padIdExists(pads, padId) == \E p \in pads : p.id = padId \/ p.writeId = padId

\* validate: { is: /^.+$/ }
isToken(v) == v # ""

\* What updatePadData is given: an absent field is "none".
PadUpdates == [id : {"none", "x", "z"}, writeId : {"none", "", "y", "z"}]

NoPadCall == [op |-> "none", pc |-> "idle", padId |-> "", id |-> "none", writeId |-> "none",
              result |-> "pending"]

InitPads ==
    /\ Pad = {}
    /\ calls = [c \in Calls |-> NoPadCall]
    /\ q = NoQuery
    /\ Line = {} /\ LinePoint = {} /\ nextId = 1 /\ emitted = <<>>
    /\ SyncIdle
    /\ LineData = {} /\ Type = {} /\ History = <<>> /\ View = {}

padsIdle == <<Line, LinePoint, nextId, emitted, q, syncVars, LineData, Type, History, View>>

\* The caller of createPad: the tokens are not in use and differ.
createPad_check(c, id, writeId) ==
    /\ calls[c].op = "none"
    /\ calls' = [calls EXCEPT ![c] =
                   IF padIdExists(Pad, id) \/ padIdExists(Pad, writeId) \/ id = writeId
                     THEN [NoPadCall EXCEPT !.op = "createPad", !.pc = "done", !.id = id,
                                            !.writeId = writeId, !.result = "error"]
                     ELSE [NoPadCall EXCEPT !.op = "createPad", !.pc = "create", !.id = id,
                                            !.writeId = writeId]]
    /\ UNCHANGED <<Pad, padsIdle>>

\* createPad(data): Pad.create validates the row and inserts it; a second
\* row with the id is refused.
createPad(c) ==
    /\ calls[c].pc = "create"
    /\ IF isToken(calls[c].id) /\ isToken(calls[c].writeId) /\ ~\E p \in Pad : p.id = calls[c].id
         THEN /\ Pad' = Pad \cup { [id |-> calls[c].id, writeId |-> calls[c].writeId] }
              /\ calls' = [calls EXCEPT ![c].pc = "done", ![c].result = "ok"]
         ELSE /\ calls' = [calls EXCEPT ![c].pc = "done", ![c].result = "error"]
              /\ UNCHANGED Pad
    /\ UNCHANGED padsIdle

\* The caller of updatePadData: the tokens to store are not in use and differ
\* from each other and from the token the pad keeps.
updatePadData_check(c, padId, data) ==
    /\ calls[c].op = "none"
    /\ \E p \in Pad : p.id = padId
    /\ LET pad == CHOOSE p \in Pad : p.id = padId
           id == IF data.id = "none" THEN pad.id ELSE data.id
           writeId == IF data.writeId = "none" THEN pad.writeId ELSE data.writeId
           refused == \/ data.id # "none" /\ data.id # pad.id /\ padIdExists(Pad, data.id)
                      \/ data.writeId # "none" /\ data.writeId # pad.writeId /\ padIdExists(Pad, data.writeId)
                      \/ id = writeId
       IN calls' = [calls EXCEPT ![c] =
                      [NoPadCall EXCEPT !.op = "updatePadData", !.padId = padId, !.id = data.id,
                                        !.writeId = data.writeId,
                                        !.pc = IF refused THEN "done" ELSE "update",
                                        !.result = IF refused THEN "error" ELSE "pending"]]
    /\ UNCHANGED <<Pad, padsIdle>>

\* updatePadData(padId, data): Pad.update validates the given fields and
\* writes them to the row with the id.
updatePadData(c) ==
    /\ calls[c].pc = "update"
    /\ LET valid == /\ calls[c].id # "none" => isToken(calls[c].id)
                    /\ calls[c].writeId # "none" => isToken(calls[c].writeId)
           taken == /\ calls[c].id # "none" /\ calls[c].id # calls[c].padId
                    /\ \E p \in Pad : p.id = calls[c].id
       IN IF valid /\ ~taken
            THEN /\ Pad' = { IF p.id = calls[c].padId
                               THEN [id |-> IF calls[c].id = "none" THEN p.id ELSE calls[c].id,
                                     writeId |-> IF calls[c].writeId = "none" THEN p.writeId
                                                 ELSE calls[c].writeId]
                               ELSE p : p \in Pad }
                 /\ calls' = [calls EXCEPT ![c].pc = "done", ![c].result = "ok"]
            ELSE /\ calls' = [calls EXCEPT ![c].pc = "done", ![c].result = "error"]
                 /\ UNCHANGED Pad
    /\ UNCHANGED padsIdle

NextPads ==
    \/ \E c \in Calls, id \in Tokens, writeId \in Tokens : createPad_check(c, id, writeId)
    \/ \E c \in Calls : createPad(c)
    \/ \E c \in Calls, padId \in Tokens, data \in PadUpdates : updatePadData_check(c, padId, data)
    \/ \E c \in Calls : updatePadData(c)

SpecPads == InitPads /\ [][NextPads]_vars

\* C27: the tokens of every pad are non-empty and differ from each other,
\* and no token of one pad is a token of another.
C27_TokensDistinct ==
    \A p \in Pad :
        /\ p.id # "" /\ p.writeId # ""
        /\ p.id # p.writeId
        /\ \A o \in Pad \ {p} : {p.id, p.writeId} \cap {o.id, o.writeId} = {}

(***************************************************************************)
(* Requests of the client: _emit raises loadStart and emit, sends the      *)
(* request with an acknowledgement callback, and awaits the promise the    *)
(* callback settles; its finally raises loadEnd.  A request emitted while  *)
(* the socket is disconnected is sent on the next connect; the             *)
(* acknowledgement of a request that was sent over a connection that broke *)
(* never arrives.                                                          *)
(***************************************************************************)

NoRequest == [pc |-> "idle", outcome |-> "pending", settled |-> 0]

InitEmit ==
    /\ calls = [c \in Calls |-> NoRequest]
    /\ client = [disconnected |-> FALSE, loading |-> 0]
    /\ emitted = <<>>
    /\ q = NoQuery
    /\ Line = {} /\ LinePoint = {} /\ nextId = 1
    /\ Marker = {} /\ markerSeq = 1 /\ sockets = <<>> /\ channel = <<>> /\ counts = <<>>
    /\ DataIdle

emitIdle == <<Line, LinePoint, nextId, q, Marker, markerSeq, sockets, channel, counts, dataVars>>

\* _simulateEvent(name) for request c.
Raised(events, name, c) == Append(events, [name |-> name, call |-> c])

\* The loadStart and loadEnd handlers of the client.
Loading(cl, by) == [cl EXCEPT !.loading = @ + by]

\* _emit up to the await: loadStart, emit, socket.emit.
Emit_call(c) ==
    /\ calls[c].pc = "idle"
    /\ emitted' = Raised(Raised(emitted, "loadStart", c), "emit", c)
    /\ client' = Loading(client, 1)
    /\ calls' = [calls EXCEPT ![c].pc = IF client.disconnected THEN "buffered" ELSE "sent"]
    /\ UNCHANGED emitIdle

\* The server answers the request with an error or with data.
Emit_answer(c) ==
    /\ calls[c].pc = "sent"
    /\ \E outcome \in {"error", "data"} :
         calls' = [calls EXCEPT ![c].pc = "answered", ![c].outcome = outcome]
    /\ UNCHANGED <<client, emitted, emitIdle>>

\* The acknowledgement callback: reject and emitReject, or resolve and
\* emitResolve.
Emit_callback(c) ==
    /\ calls[c].pc = "answered"
    /\ calls' = [calls EXCEPT ![c].pc = "settled", ![c].settled = @ + 1]
    /\ emitted' = Raised(emitted, IF calls[c].outcome = "error" THEN "emitReject" ELSE "emitResolve", c)
    /\ UNCHANGED <<client, emitIdle>>

\* The await returns or throws: finally, loadEnd.
Emit_finally(c) ==
    /\ calls[c].pc = "settled"
    /\ emitted' = Raised(emitted, "loadEnd", c)
    /\ client' = Loading(client, -1)
    /\ calls' = [calls EXCEPT ![c].pc = "done"]
    /\ UNCHANGED emitIdle

\* The connection breaks: what was sent and not acknowledged stays so.
Emit_disconnect ==
    /\ ~client.disconnected
    /\ client' = [client EXCEPT !.disconnected = TRUE]
    /\ calls' = [c \in Calls |-> IF calls[c].pc \in {"sent", "answered"}
                                   THEN [calls[c] EXCEPT !.pc = "unanswered"] ELSE calls[c]]
    /\ UNCHANGED <<emitted, emitIdle>>

\* The socket reconnects and sends what it had buffered.
Emit_connect ==
    /\ client.disconnected
    /\ client' = [client EXCEPT !.disconnected = FALSE]
    /\ calls' = [c \in Calls |-> IF calls[c].pc = "buffered"
                                   THEN [calls[c] EXCEPT !.pc = "sent"] ELSE calls[c]]
    /\ UNCHANGED <<emitted, emitIdle>>

NextEmit ==
    \/ \E c \in Calls : Emit_call(c)
    \/ \E c \in Calls : Emit_answer(c)
    \/ \E c \in Calls : Emit_callback(c)
    \/ \E c \in Calls : Emit_finally(c)
    \/ Emit_disconnect
    \/ Emit_connect

\* The server answers what it receives, the client runs its callbacks, and
\* a broken connection is set up again.
SpecEmit ==
    /\ InitEmit /\ [][NextEmit]_vars
    /\ \A c \in Calls : WF_vars(Emit_answer(c)) /\ WF_vars(Emit_callback(c)) /\ WF_vars(Emit_finally(c))
    /\ WF_vars(Emit_connect)

\* How often the event name was raised for request c.
RaisedCount(name, c) ==
    Cardinality({ i \in DOMAIN emitted : emitted[i].name = name /\ emitted[i].call = c })

\* C28: every request issued through _emit settles exactly once, with one
\* loadStart before, one loadEnd after, and one of emitResolve or emitReject.
C28_SettlesOnce ==
    \A c \in Calls :
        (calls[c].pc # "idle")
          ~> (/\ calls[c].settled = 1
              /\ RaisedCount("loadStart", c) = 1
              /\ RaisedCount("loadEnd", c) = 1
              /\ RaisedCount("emitResolve", c) + RaisedCount("emitReject", c) = 1)

(***************************************************************************)
(* The client's access level: padData and deletePad events and the         *)
(* createPad request, on a client with the deleted flag of the class.      *)
(***************************************************************************)
\* The padData events: writable absent ("null") or a level; the write and
\* admin tokens present or not, the admin token possibly a new one.
PadDataEvents ==
    [id : {"p1"}, writeId : {"w1", "null"}, adminId : {"a1", "a2", "null"},
     defaultViewId : {NoId}, writable : {"null", "0", "1", "2"}]

\* What the server answers createPad with: the events of the new pad.
CreatePadAnswers == {<<>>} \cup { <<e>> : e \in { x \in PadDataEvents : x.writable \in {"null", "2"} } }

ClientW0 == [Client0 EXCEPT !.padId = "undefined", !.disconnected = FALSE] @@ [deleted |-> FALSE]

InitWritable ==
    /\ client = ClientW0
    /\ q = NoQuery
    /\ Marker = {} /\ markerSeq = 1
    /\ sockets = <<>> /\ channel = <<>> /\ counts = <<>>
    /\ Line = {} /\ LinePoint = {}
    /\ nextId = 1 /\ calls = <<>> /\ emitted = <<>>
    /\ DataIdle

Ev_padDataOf ==
    /\ ~client.disconnected
    /\ \E data \in PadDataEvents : Deliver("padData", data)

Ev_deletePad ==
    /\ ~client.disconnected
    /\ Deliver("deletePad", <<>>)

\* createPad(data) once _emit has resolved with obj: readonly, writable,
\* then _receiveMultiple(obj).
Client_createPad ==
    /\ ~client.disconnected
    /\ \E obj \in CreatePadAnswers :
         /\ client' = receiveEvents([client EXCEPT !.readonly = "false", !.writable = "2"],
                                    "padData", obj, 1)
         /\ q' = [kind |-> "event", name |-> "createPad", data |-> obj, before |-> client]
    /\ UNCHANGED <<Line, LinePoint, callVars, Marker, markerSeq, sockets, channel, counts>>
    /\ UNCHANGED dataVars

NextWritable == Ev_padDataOf \/ Ev_deletePad \/ Client_createPad

SpecWritable == InitWritable /\ [][NextWritable]_vars

\* C36: whenever readonly and writable are defined, readonly is true exactly
\* when writable is 0.  A padData event without writable leaves both as
\* they were; a deletePad event sets writable 0, readonly true and deleted;
\* createPad sets writable 2 and readonly false before the answer's events.
\* After a padData event that carries the token of the client's level, padId
\* is the admin token at level 2, the write token at level 1 and the read
\* token otherwise.
C36_ReadonlyIffNotWritable ==
    /\ (client.readonly # "undefined" /\ client.writable # "undefined")
         => (client.readonly = "true" <=> client.writable = "0")
    /\ LastEvent("deletePad")
         => client.writable = "0" /\ client.readonly = "true" /\ client.deleted
    /\ (LastEvent("createPad") /\ \A i \in DOMAIN q.data : q.data[i].writable = "null")
         => client.writable = "2" /\ client.readonly = "false"
    /\ LastEvent("padData")
         => /\ q.data.writable = "null"
                 => client.writable = q.before.writable /\ client.readonly = q.before.readonly
            /\ q.data.writable # "null" => client.writable = q.data.writable
            /\ LET token == IF client.writable = "2" THEN q.data.adminId
                             ELSE IF client.writable = "1" THEN q.data.writeId ELSE q.data.id
               IN token # "null" => client.padId = token

\* C36 witness: a client at level 2 received padData without writable that
\* carries another admin token, and holds that token as its pad id.
C36_Witness ==
    /\ LastEvent("padData")
    /\ q.data.writable = "null"
    /\ q.before.writable = "2" /\ q.before.padId = "a1"
    /\ client.readonly = "false" /\ client.writable = "2"
    /\ client.padId = "a2"

(***************************************************************************)
(* The loading counter: connect() schedules loadStart with setTimeout and  *)
(* registers a once-listener of "connect" that raises loadEnd; _emit       *)
(* raises loadStart before the request and loadEnd in its finally.  The    *)
(* timer and the connection are independent of each other: nothing in      *)
(* connect() makes the "connect" event wait for the timer.  The client has *)
(* no pad id, bbox or route, so its connect handler issues no request.     *)
(***************************************************************************)
InitLoading ==
    /\ calls = [c \in Calls |-> NoRequest]
    /\ client = [disconnected |-> TRUE, loading |-> 0, timer |-> "scheduled", once |-> TRUE]
    /\ emitted = <<>>
    /\ q = NoQuery
    /\ Line = {} /\ LinePoint = {} /\ nextId = 1
    /\ Marker = {} /\ markerSeq = 1 /\ sockets = <<>> /\ channel = <<>> /\ counts = <<>>
    /\ DataIdle

\* setTimeout(() => { this._simulateEvent("loadStart"); }, 0) fires.
Connect_timer ==
    /\ client.timer = "scheduled"
    /\ client' = [Loading(client, 1) EXCEPT !.timer = "fired"]
    /\ emitted' = Raised(emitted, "loadStart", 0)
    /\ UNCHANGED <<calls, emitIdle>>

\* The "connect" event: the connect handler, then, the first time, the
\* once-listener of connect() with its loadEnd; the socket sends what it
\* had buffered.
Connect_event ==
    /\ client.disconnected
    /\ client' = IF client.once
                   THEN [Loading(client, -1) EXCEPT !.disconnected = FALSE, !.once = FALSE]
                   ELSE [client EXCEPT !.disconnected = FALSE]
    /\ emitted' = IF client.once THEN Raised(emitted, "loadEnd", 0) ELSE emitted
    /\ calls' = [c \in Calls |-> IF calls[c].pc = "buffered"
                                   THEN [calls[c] EXCEPT !.pc = "sent"] ELSE calls[c]]
    /\ UNCHANGED emitIdle

NextLoading ==
    \/ Connect_timer
    \/ Connect_event
    \/ \E c \in Calls : Emit_call(c)
    \/ \E c \in Calls : Emit_answer(c)
    \/ \E c \in Calls : Emit_callback(c)
    \/ \E c \in Calls : Emit_finally(c)
    \/ Emit_disconnect

SpecLoading == InitLoading /\ [][NextLoading]_vars

\* The requests _emit was called for and has not returned from.
Unsettled == { c \in Calls : calls[c].pc \notin {"idle", "done"} }

\* C35: the loading counter is never negative and equals the number of
\* requests issued through _emit and not yet settled, plus one between the
\* loadStart of the initial connect and the first "connect" event; so it is
\* 0 when the connection is set up and every request has settled.
C35_LoadingCounts ==
    /\ client.loading >= 0
    /\ client.loading = Cardinality(Unsettled)
                          + (IF client.timer = "fired" /\ client.once THEN 1 ELSE 0)

(***************************************************************************)
(* getPadData of database.js: the backend's getPadData, and createPad when *)
(* it found no pad.  The two backend calls are separate operations; other  *)
(* calls run between them.  The backend stores one pad per id and refuses  *)
(* a second one; either backend call may fail.                             *)
(***************************************************************************)
GetPadIds == {"x", "y"}

NoGetPad == [op |-> "none", pc |-> "idle", padId |-> "", fault |-> FALSE,
             err |-> "null", data |-> "null", result |-> "pending"]

InitGetPad ==
    /\ Pad = {}
    /\ calls = [c \in Calls |-> NoGetPad]
    /\ q = NoQuery
    /\ Line = {} /\ LinePoint = {} /\ nextId = 1 /\ emitted = <<>>
    /\ SyncIdle
    /\ LineData = {} /\ Type = {} /\ History = <<>> /\ View = {}

\* callback(err, data)
getPadData_callback(call, err, data) ==
    [call EXCEPT !.pc = "done", !.err = err, !.data = data,
                 !.result = IF err # "null" THEN "error" ELSE "ok"]

\* getPadData(padId, callback) up to backend.getPadData.
getPadData_call(c, padId) ==
    /\ calls[c].op = "none"
    /\ calls' = [calls EXCEPT ![c] = [NoGetPad EXCEPT !.op = "getPadData", !.pc = "lookup",
                                                      !.padId = padId]]
    /\ UNCHANGED <<Pad, padsIdle>>

\* backend.getPadData answers: with an error or a pad the callback is
\* called, with neither createPad is.
getPadData_lookup(c) ==
    /\ calls[c].pc = "lookup"
    /\ \/ \E err \in {"null", "lookup failed"} :
            LET data == IF err = "null" /\ \E p \in Pad : p.id = calls[c].padId
                          THEN calls[c].padId ELSE "null"
            IN calls' = [calls EXCEPT ![c] =
                           IF err # "null" \/ data # "null"
                             THEN getPadData_callback([@ EXCEPT !.fault = err # "null"], err, data)
                             ELSE [@ EXCEPT !.pc = "create"]]
    /\ UNCHANGED <<Pad, padsIdle>>

\* backend.createPad(padId, callback): the pad is stored, or the call fails;
\* it fails when the id is taken.
getPadData_createPad(c) ==
    /\ calls[c].pc = "create"
    /\ \/ /\ ~\E p \in Pad : p.id = calls[c].padId
          /\ Pad' = Pad \cup { [id |-> calls[c].padId, writeId |-> "none"] }
          /\ calls' = [calls EXCEPT ![c] = getPadData_callback(@, "null", calls[c].padId)]
       \/ /\ \E p \in Pad : p.id = calls[c].padId
          /\ calls' = [calls EXCEPT ![c] = getPadData_callback(@, "duplicate id", "null")]
          /\ UNCHANGED Pad
       \/ /\ calls' = [calls EXCEPT ![c] =
                         getPadData_callback([@ EXCEPT !.fault = TRUE], "create failed", "null")]
          /\ UNCHANGED Pad
    /\ UNCHANGED padsIdle

NextGetPad ==
    \/ \E c \in Calls, padId \in GetPadIds : getPadData_call(c, padId)
    \/ \E c \in Calls : getPadData_lookup(c)
    \/ \E c \in Calls : getPadData_createPad(c)

SpecGetPad == InitGetPad /\ [][NextGetPad]_vars

\* C34: the callback of getPadData receives either an error or a pad, never
\* both and never neither; a pad is created only by a call whose lookup
\* found none; and, the backend answering every call, after any interleaving
\* of getPadData calls for one missing id exactly one pad with that id
\* exists and every caller has received it without error.
C34_GetOrCreate ==
    \A c \in Calls :
        calls[c].pc = "done" =>
            /\ (calls[c].err = "null") # (calls[c].data = "null")
            /\ calls[c].data # "null" => calls[c].data = calls[c].padId
            /\ ~calls[c].fault =>
                  /\ calls[c].err = "null"
                  /\ Cardinality({ p \in Pad : p.id = calls[c].padId }) = 1

(***************************************************************************)
(* Views: createView and updateView of database.js.  Each checks the name, *)
(* calls the backend and, in the backend's callback, notifies the pad's    *)
(* listeners and calls back.  The backend stores the view as given or      *)
(* answers with an error.                                                  *)
(***************************************************************************)
\* The data.name of the requests: "none" is a missing name.
ViewNames == {"none", "", " ", "a", "a "}
ViewIds == {1, 2}

NoViewCall == [op |-> "none", pc |-> "idle", viewId |-> 0, name |-> "none",
               backend |-> FALSE, result |-> "pending"]

StoredViews0 == { [id |-> 1, padId |-> 1, name |-> "v"] }

InitViews ==
    /\ View = StoredViews0
    /\ calls = [c \in Calls |-> NoViewCall]
    /\ emitted = <<>>
    /\ q = NoQuery
    /\ Line = {} /\ LinePoint = {} /\ nextId = 2
    /\ SyncIdle
    /\ LineData = {} /\ Type = {} /\ History = <<>> /\ Pad = {}

viewsIdle == <<Line, LinePoint, q, syncVars, LineData, Type, History, Pad>>

\* data.name == null || data.name.trim().length == 0
noName(name) == name = "none" \/ trim(name) = ""

\* createView(padId, data, callback) up to the backend call.
createView_call(c, name) ==
    /\ calls[c].op = "none"
    /\ calls' = [calls EXCEPT ![c] =
                   IF noName(name)
                     THEN [NoViewCall EXCEPT !.op = "createView", !.name = name, !.pc = "done",
                                             !.result = "No name provided."]
                     ELSE [NoViewCall EXCEPT !.op = "createView", !.name = name, !.pc = "backend",
                                             !.backend = TRUE]]
    /\ UNCHANGED <<View, nextId, emitted, viewsIdle>>

\* updateView(viewId, data, callback) up to the backend call.
updateView_call(c, viewId, name) ==
    /\ calls[c].op = "none"
    /\ calls' = [calls EXCEPT ![c] =
                   IF noName(name)
                     THEN [NoViewCall EXCEPT !.op = "updateView", !.viewId = viewId, !.name = name,
                                             !.pc = "done", !.result = "No name provided."]
                     ELSE [NoViewCall EXCEPT !.op = "updateView", !.viewId = viewId, !.name = name,
                                             !.pc = "backend", !.backend = TRUE]]
    /\ UNCHANGED <<View, nextId, emitted, viewsIdle>>

\* backend.createView and its callback: the error is passed on, or the
\* listeners are notified of the stored view and the callback gets it.
createView_backend(c) ==
    /\ calls[c].pc = "backend" /\ calls[c].op = "createView"
    /\ \/ /\ View' = View \cup { [id |-> nextId, padId |-> 1, name |-> calls[c].name] }
          /\ nextId' = nextId + 1
          /\ emitted' = Emit(c, "view", nextId)
          /\ calls' = [calls EXCEPT ![c].pc = "done", ![c].viewId = nextId, ![c].result = "ok"]
       \/ /\ calls' = [calls EXCEPT ![c].pc = "done", ![c].result = "error"]
          /\ UNCHANGED <<View, nextId, emitted>>
    /\ UNCHANGED viewsIdle

\* backend.updateView and its callback.
updateView_backend(c) ==
    /\ calls[c].pc = "backend" /\ calls[c].op = "updateView"
    /\ \/ /\ \E v \in View : v.id = calls[c].viewId
          /\ View' = { IF v.id = calls[c].viewId THEN [v EXCEPT !.name = calls[c].name] ELSE v
                         : v \in View }
          /\ emitted' = Emit(c, "view", calls[c].viewId)
          /\ calls' = [calls EXCEPT ![c].pc = "done", ![c].result = "ok"]
       \/ /\ calls' = [calls EXCEPT ![c].pc = "done", ![c].result = "error"]
          /\ UNCHANGED <<View, emitted>>
    /\ UNCHANGED <<nextId, viewsIdle>>

NextViews ==
    \/ \E c \in Calls, name \in ViewNames : createView_call(c, name)
    \/ \E c \in Calls, viewId \in ViewIds, name \in ViewNames : updateView_call(c, viewId, name)
    \/ \E c \in Calls : createView_backend(c)
    \/ \E c \in Calls : updateView_backend(c)

SpecViews == InitViews /\ [][NextViews]_vars

\* C38: a createView or updateView whose name is missing, empty or only
\* whitespace ends at once with 'No name provided.', the backend not called,
\* no listener notified and the stored views as they were; a call with a
\* name notifies listeners with one 'view' event, in the step in which the
\* backend succeeded and not otherwise.
C38_NameRequired ==
    [][ \A c \in Calls :
          calls'[c] # calls[c] =>
            /\ calls'[c].name \in {"none", "", " "} =>
                  /\ calls'[c].pc = "done" /\ calls'[c].result = "No name provided."
                  /\ ~calls'[c].backend
                  /\ View' = View /\ emitted' = emitted
            /\ calls'[c].name \notin {"none", "", " "} =>
                  /\ calls'[c].result # "No name provided."
                  /\ calls[c].op = "none" => (calls'[c].backend /\ View' = View /\ emitted' = emitted)
                  /\ calls'[c].result = "ok" =>
                        /\ emitted' = Append(emitted, [type |-> "view", padId |-> 1,
                                                        id |-> calls'[c].viewId, call |-> c])
                        /\ [id |-> calls'[c].viewId, padId |-> 1, name |-> calls'[c].name] \in View'
                  /\ calls'[c].result = "error" => (View' = View /\ emitted' = emitted)
      ]_vars

\* C38 witness: one call with a whitespace name ended with 'No name
\* provided.' and no event, another with a name stored its view and
\* notified the listeners.
C38_Witness ==
    \E c, d \in Calls :
        /\ calls[c].name = " " /\ calls[c].result = "No name provided."
        /\ ~calls[c].backend /\ EventsOf(c, {"view"}) = {}
        /\ calls[d].op = "createView" /\ calls[d].name = "a " /\ calls[d].result = "ok"
        /\ EventsOf(d, {"view"}) # {}
        /\ \E v \in View : v.id = calls[d].viewId /\ v.name = "a "

(***************************************************************************)
(* getScripts of frontend.ts: the chunks of the vite manifest referenced   *)
(* from an entry.  A manifest maps each chunk to its file, its imports and *)
(* its dynamicImports, both naming chunks of the manifest; distinct chunks *)
(* have distinct files.                                                    *)
(***************************************************************************)
\* References of one kind a chunk may hold.
MaxImports == 1

Chunks == {"map.ts", "table.ts", "shared.ts"}

\* paths[entry]
paths(entry) == IF entry = "mapEntry" THEN "map.ts" ELSE "table.ts"

\* The file of a chunk in the manifest.
ChunkFile(c) ==
    CASE c = "map.ts" -> "assets/map.js"
      [] c = "table.ts" -> "assets/table.js"
      [] c = "shared.ts" -> "assets/shared.js"

ImportLists == UNION { [1..n -> Chunks] : n \in 0..MaxImports }

Manifests ==
    [Chunks -> [imports : ImportLists, dynamicImports : ImportLists]]

InitScripts ==
    /\ q \in [kind : {"manifest"}, isDevMode : BOOLEAN, manifest : Manifests]
    /\ Line = {} /\ LinePoint = {} /\ nextId = 1 /\ calls = <<>> /\ emitted = <<>>
    /\ SyncIdle
    /\ DataIdle

\* Mutant of references: the dynamic imports are left out.
references_importsOnly(chunk) == chunk.imports

\* [ ...chunk.imports ?? [], ...chunk.dynamicImports ?? [] ]
references(chunk) == chunk.imports \o chunk.dynamicImports

\* The inner loop: each reference not yet included is pushed.
RECURSIVE pushReferences(_, _, _)
pushReferences(referencedChunks, refs, k) ==
    IF k > Len(refs) THEN referencedChunks
    ELSE pushReferences(IF refs[k] \in Range(referencedChunks)
                          THEN referencedChunks
                          ELSE Append(referencedChunks, refs[k]),
                        refs, k + 1)

\* for (let i = 0; i < referencedChunks.length; i++) over the growing array.
RECURSIVE referencedFrom(_, _, _)
referencedFrom(manifest, referencedChunks, i) ==
    IF i > Len(referencedChunks) THEN referencedChunks
    ELSE referencedFrom(manifest,
                        pushReferences(referencedChunks, references(manifest[referencedChunks[i]]), 1),
                        i + 1)

\* getScripts(entry) without the styles.
getScripts(isDevMode, manifest, entry) ==
    IF isDevMode
      THEN [scripts |-> <<"@vite/client", paths(entry)>>, preloadScripts |-> <<>>]
      ELSE LET referencedChunks == referencedFrom(manifest, <<paths(entry)>>, 1)
               scripts == [ k \in DOMAIN referencedChunks |-> ChunkFile(referencedChunks[k]) ]
           IN [scripts |-> SubSeq(scripts, 1, 1),
               preloadScripts |-> SubSeq(scripts, 2, Len(scripts))]

\* One call of getScripts on the manifest.
GetScripts ==
    /\ q.kind = "manifest"
    /\ \E entry \in {"mapEntry", "tableEntry"} :
         q' = [kind |-> "scripts", isDevMode |-> q.isDevMode, manifest |-> q.manifest,
               entry |-> entry, res |-> getScripts(q.isDevMode, q.manifest, entry)]
    /\ UNCHANGED <<Line, LinePoint, callVars, syncVars>>
    /\ UNCHANGED dataVars

NextScripts == GetScripts

SpecScripts == InitScripts /\ [][NextScripts]_vars

\* The chunks reachable from the set S through imports and dynamicImports.
RECURSIVE ReachableFrom(_, _)
ReachableFrom(manifest, S) ==
    LET T == S \cup UNION { Range(manifest[c].imports) \cup Range(manifest[c].dynamicImports) : c \in S }
    IN IF T = S THEN S ELSE ReachableFrom(manifest, T)

\* C39: in production mode getScripts returns, for every manifest (cyclic
\* ones included), the entry chunk's file as the single element of scripts
\* and in preloadScripts the file of every other chunk reachable from the
\* entry through imports and dynamicImports, each exactly once, and no other.
C39_ReachableOnce ==
    (q.kind = "scripts" /\ ~q.isDevMode) =>
        LET others == ReachableFrom(q.manifest, {paths(q.entry)}) \ {paths(q.entry)}
        IN /\ q.res.scripts = <<ChunkFile(paths(q.entry))>>
           /\ Range(q.res.preloadScripts) = { ChunkFile(c) : c \in others }
           /\ Len(q.res.preloadScripts) = Cardinality(others)

\* C39 witness: the entry imports a chunk that imports the entry back and
\* names the third chunk twice, as import and as dynamic import; both other
\* chunks are preloaded once.
C39_Witness ==
    /\ q.kind = "scripts" /\ ~q.isDevMode /\ q.entry = "mapEntry"
    /\ q.manifest["map.ts"].imports = <<"shared.ts">>
    /\ q.manifest["shared.ts"].imports = <<"table.ts">>
    /\ q.manifest["shared.ts"].dynamicImports = <<"table.ts">>
    /\ q.manifest["table.ts"].imports = <<"map.ts">>
    /\ q.res.preloadScripts = <<"assets/shared.js", "assets/table.js">>

====
